---- MODULE Spec2Model ----
(***************************************************************************)
(* Model of aqt/repo_model.py: the schema catalog (RepoModel) and the      *)
(* rule-evaluation engine (Schema.fill_template).                          *)
(*                                                                         *)
(* Strings are sequences of tokens.  A token is either one character that  *)
(* the code inspects (a digit, ".", "_", "{", "}", a comparison operator,  *)
(* the separator "-to-") or an opaque run of characters that the code      *)
(* never splits.  A Python dict is a sequence of <<key, value>> pairs in   *)
(* insertion order with distinct keys.  A JSON value is a tagged record.   *)
(***************************************************************************)
EXTENDS Integers, Sequences, FiniteSets, TLC

VARIABLES
    document,       \* the parsed json_definition given to RepoModel.__init__
    definition,     \* RepoModel.definition
    schema,         \* the Schema object last returned by get_schema, or NoSchema
    last,           \* outcome of the latest RepoModel call since the latest fill_template
    pc,             \* position inside Schema.fill_template ("idle" outside)
    heap,           \* the two dict objects: "a" the caller's args, "v" the local copy
    variables_ref,  \* which object the local name `variables` refers to
    semver,         \* the local `semver` of fill_template: Unbound or <<major, minor, patch>>
    idx,            \* position of the loop over name_converters.items()
    frame,          \* arguments of the running recursive_translate call
    translation,    \* the local `translation` of recursive_translate
    path,           \* the levels of the chain followed for the current root rule
    args0,          \* the value of the args mapping when fill_template was called
    result,         \* outcome of the latest fill_template call
    prev,           \* args and result of the call before it, when it had equal args
    ALLOWED_VALUES, \* the class attribute Schema.ALLOWED_VALUES
    allowed,        \* outcome of the latest list_allowed_values_for call
    gen,            \* the generator object of the latest yield_urls call
    fetch,          \* the running or latest MetadataFactory.fetch_http call
    call            \* the latest call of a function of aqt.metadata: name, arguments, outcome

repoVars == <<document, definition, schema, last, pc, heap, variables_ref, semver,
              idx, frame, translation, path, args0, result, prev>>

urlVars == <<ALLOWED_VALUES, allowed, gen>>

metaVars == <<fetch, call>>

vars == <<repoVars, urlVars, metaVars>>

----------------------------------------------------------------------------
(* JSON values *)

Str(s) == [t |-> "str", v |-> s]

Dict(pairs) == [t |-> "dict", v |-> pairs]

List(items) == [t |-> "list", v |-> items]

Num(n) == [t |-> "num", v |-> n]

(* A one-token string. *)
S(x) == <<x>>

(* Python dict operations on a sequence of pairs. *)
DictKeys(d) == [i \in 1..Len(d) |-> d[i][1]]

DictHas(d, k) == \E i \in 1..Len(d) : d[i][1] = k

DictGet(d, k) == d[CHOOSE i \in 1..Len(d) : d[i][1] = k][2]

DictPop(d, k) == SelectSeq(d, LAMBDA p : p[1] # k)

DictSet(d, k, val) ==
    IF DictHas(d, k)
    THEN [i \in 1..Len(d) |-> IF d[i][1] = k THEN <<k, val>> ELSE d[i]]
    ELSE Append(d, <<k, val>>)

RECURSIVE Concat(_)
Concat(ss) == IF ss = <<>> THEN <<>> ELSE Head(ss) \o Concat(Tail(ss))

----------------------------------------------------------------------------
(* Outcomes *)

NoSchema == [none |-> TRUE]

Unbound == <<>>

None == [t |-> "none"]

Ok(val) == [ok |-> TRUE, value |-> val]

Raise(exc, msg) == [ok |-> FALSE, exc |-> exc, msg |-> msg]

SchemaError(msg) == Raise("SchemaError", msg)

NoResult == [ok |-> FALSE, exc |-> "none", msg |-> <<>>]

MsgUnrecognizedKey == S("Schema contains unrecognized key")

MsgNoResolution == S("Schema contains no resolution for version ")

MsgNeither == S("Translator object is neither a string nor a dictionary")

MsgOneKey == S("Translator object should only have one key available")

----------------------------------------------------------------------------
(* Version and SimpleSpec (aqt.metadata) *)

Digits == <<"0", "1", "2", "3", "4", "5", "6", "7", "8", "9">>

IsDigit(tok) == \E d \in 1..Len(Digits) : Digits[d] = tok

DigitVal(tok) == (CHOOSE d \in 1..Len(Digits) : Digits[d] = tok) - 1

(* str.split(sep) for a separator that is one token. *)
RECURSIVE Split(_, _)
Split(s, sep) ==
    IF \A i \in 1..Len(s) : s[i] # sep
    THEN <<s>>
    ELSE LET i == CHOOSE n \in 1..Len(s) : s[n] = sep /\ \A j \in 1..(n - 1) : s[j] # sep
         IN  <<SubSeq(s, 1, i - 1)>> \o Split(SubSeq(s, i + 1, Len(s)), sep)

IsNumber(seg) == seg # <<>> /\ \A i \in 1..Len(seg) : IsDigit(seg[i])

RECURSIVE NumVal(_)
NumVal(seg) ==
    IF seg = <<>> THEN 0
    ELSE NumVal(SubSeq(seg, 1, Len(seg) - 1)) * 10 + DigitVal(seg[Len(seg)])

RECURSIVE NumStr(_)
NumStr(n) ==
    IF n < 10 THEN <<Digits[n + 1]>>
    ELSE NumStr(n \div 10) \o <<Digits[(n % 10) + 1]>>

(* Version(s): three non-negative integer segments, or a failure. *)
Version(s) ==
    LET parts == Split(s, ".")
    IN  IF Len(parts) = 3 /\ \A i \in 1..3 : IsNumber(parts[i])
        THEN Ok(<<NumVal(parts[1]), NumVal(parts[2]), NumVal(parts[3])>>)
        ELSE Raise("InvalidVersionFormat", S("Invalid version string"))

(* str(version) *)
VersionStr(v) == NumStr(v[1]) \o <<".">> \o NumStr(v[2]) \o <<".">> \o NumStr(v[3])

VersionLess(a, b) ==
    \/ a[1] < b[1]
    \/ a[1] = b[1] /\ a[2] < b[2]
    \/ a[1] = b[1] /\ a[2] = b[2] /\ a[3] < b[3]

SpecOps == {">=", "<=", ">", "<", "=="}

(* SimpleSpec(k): one clause, an optional operator and a version that may   *)
(* leave out the patch or the minor and patch numbers (-1 when left out).   *)
SimpleSpec(k) ==
    IF k = <<"*">> THEN Ok([op |-> "*", major |-> 0, minor |-> -1, patch |-> -1])
    ELSE IF k = <<>> THEN Raise("ValueError", S("Invalid simple block"))
    ELSE LET hasOp == k[1] \in SpecOps
             op    == IF hasOp THEN k[1] ELSE "=="
             rest  == IF hasOp THEN Tail(k) ELSE k
             parts == Split(rest, ".")
         IN  IF Len(parts) \in 1..3 /\ \A i \in 1..Len(parts) : IsNumber(parts[i])
             THEN Ok([op    |-> op,
                      major |-> NumVal(parts[1]),
                      minor |-> IF Len(parts) >= 2 THEN NumVal(parts[2]) ELSE -1,
                      patch |-> IF Len(parts) >= 3 THEN NumVal(parts[3]) ELSE -1])
             ELSE Raise("ValueError", S("Invalid simple block"))

(* `v in spec` *)
SpecContains(spec, v) ==
    LET lo  == <<spec.major,
                 IF spec.minor < 0 THEN 0 ELSE spec.minor,
                 IF spec.patch < 0 THEN 0 ELSE spec.patch>>
        nxt == IF spec.minor < 0 THEN <<spec.major + 1, 0, 0>>
               ELSE IF spec.patch < 0 THEN <<spec.major, spec.minor + 1, 0>>
               ELSE lo
        partial == spec.patch < 0
    IN  CASE spec.op = "*"  -> TRUE
          [] spec.op = ">=" -> ~VersionLess(v, lo)
          [] spec.op = "<"  -> VersionLess(v, lo)
          [] spec.op = ">"  -> IF partial THEN ~VersionLess(v, nxt) ELSE VersionLess(lo, v)
          [] spec.op = "<=" -> IF partial THEN VersionLess(v, nxt) ELSE ~VersionLess(lo, v)
          [] spec.op = "==" -> IF partial THEN ~VersionLess(v, lo) /\ VersionLess(v, nxt)
                               ELSE v = lo

----------------------------------------------------------------------------
(* Schema documents *)

(* The conversion key "<from>-to-<to>". *)
K(from, to) == <<from, "-to-", to>>

(* The template placeholder "{name}". *)
P(name) == <<"{", name, "}">>

B64 == <<"6", "4">>

B32 == <<"3", "2">>

GE41 == <<">=", "4", ".", "1">>

LT41 == <<"<", "4", ".", "1">>

GT100 == <<">", "1", ".", "0", ".", "0">>

EQ100 == <<"1", ".", "0", ".", "0">>

(* The document of tests/test_repo_model.py. *)
DocFixture ==
    << <<"qtdesignstudio", <<
          <<"default", <<
              <<S("args"), List(<<Str(S("semver")), Str(S("host"))>>)>>,
              <<K("host", "arch"), Dict(<< <<S("windows"), Str(S("windows-x86"))>>,
                                          <<S("mac"), Str(S("mac-x86_64"))>>,
                                          <<S("linux"), Str(S("linux-x86_64"))>> >>)>>,
              <<K("host", "file_ext"), Dict(<< <<S("windows"), Str(S("exe"))>>,
                                              <<S("mac"), Str(S("dmg"))>>,
                                              <<S("linux"), Str(S("run"))>> >>)>>,
              <<S("url_template"),
                Str(P("semver") \o S("/qt-designstudio-") \o P("arch") \o S("-")
                    \o P("semver") \o S("-community.") \o P("file_ext"))>> >> >>,
          <<"alt", <<
              <<S("args"), List(<<Str(S("semver")), Str(S("file_ext"))>>)>>,
              <<S("allowed_values"),
                Dict(<< <<S("file_ext"), List(<<Str(S("1")), Str(S("txt")), Str(S("zip"))>>)>> >>)>>,
              <<S("url_template"),
                Str(P("major_minor_semver") \o S("/") \o P("semver_underscores")
                    \o S("/qt-designstudio.") \o P("file_ext"))>> >> >> >> >>,
       <<"qt-installer-framework", <<
          <<"binary", <<
              <<S("args"), List(<<Str(S("semver")), Str(S("host")), Str(S("bits"))>>)>>,
              <<K("host", "arch"), Dict(<<
                  <<S("mac"), Dict(<< <<K("semver", "arch"),
                        Dict(<< <<GE41, Str(S("macOS-x86_64"))>>,
                                <<LT41, Str(S("mac-x64"))>> >>)>> >>)>>,
                  <<S("windows"), Dict(<< <<K("bits", "arch"), Dict(<<
                        <<B64, Dict(<< <<K("semver", "arch"),
                              Dict(<< <<GE41, Str(S("Windows-x86_64"))>>,
                                      <<LT41, Str(S("win-x64"))>> >>)>> >>)>>,
                        <<B32, Dict(<< <<K("semver", "arch"),
                              Dict(<< <<GE41, Str(S("Windows-x86"))>>,
                                      <<LT41, Str(S("win32"))>> >>)>> >>)>> >>)>> >>)>>,
                  <<S("linux"), Str(S("linux-x64"))>> >>)>>,
              <<S("url_template"),
                Str(P("semver") \o S("/QtInstallerFramework-") \o P("arch") \o S(".zip"))>> >> >> >> >> >>

(* The three malformed schemas of test_repo_model_bad_schemas, and one with *)
(* a malformed rule behind a rule that resolves only for some versions.     *)
DocBadSchemas ==
    << <<"qtdesignstudio", <<
          <<"unrecognized", <<
              <<S("args"), List(<<>>)>>,
              <<S("unrecognized_key"), Dict(<<>>)>>,
              <<S("url_template"), Str(<<>>)>> >> >>,
          <<"noresolution", <<
              <<S("args"), List(<<Str(S("semver"))>>)>>,
              <<K("semver", "ext"), Dict(<< <<GT100, Str(<<>>)>> >>)>>,
              <<S("url_template"), Str(<<>>)>> >> >>,
          <<"listnode", <<
              <<S("args"), List(<<Str(S("semver"))>>)>>,
              <<K("semver", "ext"), Dict(<< <<EQ100, List(<<>>)>>,
                                           <<S("*"), Str(S("zip"))>> >>)>>,
              <<S("url_template"), Str(S("file.") \o P("ext"))>> >> >>,
          <<"order", <<
              <<S("args"), List(<<Str(S("semver"))>>)>>,
              <<K("semver", "ext"), Dict(<< <<GT100, Str(S("zip"))>> >>)>>,
              <<S("unrecognized_key"), Dict(<<>>)>>,
              <<S("url_template"), Str(P("ext"))>> >> >> >> >> >>

(* Nested nodes of every shape, a missing url_template and a template that  *)
(* names a variable nothing binds.                                          *)
DocNested ==
    << <<"tool", <<
          <<"nested", <<
              <<S("args"), List(<<Str(S("host")), Str(S("bits"))>>)>>,
              <<K("host", "arch"), Dict(<<
                  <<S("windows"), Dict(<<>>)>>,
                  <<S("mac"), Dict(<< <<K("bits", "arch"), Dict(<< <<B64, Str(S("m64"))>> >>)>>,
                                     <<K("semver", "arch"), Dict(<< <<S("*"), Str(S("m"))>> >>)>> >>)>>,
                  <<S("linux"), Dict(<< <<S("bits_arch"), Dict(<< <<B64, Str(S("l64"))>> >>)>> >>)>>,
                  <<S("solaris"), Num(5)>>,
                  <<S("bsd"), Dict(<< <<K("bits", "arch"), Dict(<< <<B64, Str(S("b64"))>>,
                                                                  <<B32, List(<<>>)>> >>)>> >>)>> >>)>>,
              <<S("url_template"), Str(P("host") \o S("/") \o P("arch"))>> >> >>,
          <<"notemplate", <<
              <<S("args"), List(<<Str(S("host"))>>)>>,
              <<K("host", "arch"), Dict(<< <<S("linux"), Str(S("l"))>> >>)>> >> >>,
          <<"unbound", <<
              <<S("args"), List(<<Str(S("host"))>>)>>,
              <<S("allowed_values"), Dict(<<>>)>>,
              <<S("url_template"), Str(P("host") \o S("/") \o P("semver") \o S("/") \o P("nosuch"))>> >> >>,
          <<"noargs", <<
              <<S("url_template"), Str(<<>>)>> >> >> >> >> >>

(* Tables that are not mappings, a key with two separators, a key that is   *)
(* no version range.                                                        *)
DocTables ==
    << <<"tool", <<
          <<"strtable", <<
              <<S("args"), List(<<Str(S("host"))>>)>>,
              <<K("host", "arch"), Dict(<<
                  <<S("mac"), Dict(<< <<K("bits", "arch"), Str(S("x"))>> >>)>>,
                  <<S("windows"), Dict(<< <<K("semver", "arch"), Str(S("x"))>> >>)>>,
                  <<S("linux"), Dict(<< <<K("semver", "arch"),
                        Dict(<< <<LT41, Str(S("old"))>>, <<S("new"), Str(S("new"))>> >>)>> >>)>> >>)>>,
              <<S("url_template"), Str(P("arch"))>> >> >>,
          <<"twosep", <<
              <<S("args"), List(<<Str(S("host"))>>)>>,
              <<<<"host", "-to-", "arch", "-to-", "ext">>, Dict(<< <<S("linux"), Str(S("l"))>> >>)>>,
              <<S("url_template"), Str(P("host"))>> >> >> >> >> >>

(* Rules that depend on each other: a rule whose source is the target of   *)
(* the rule before it, the same two rules the other way round, a rule whose *)
(* target is the name of an input variable, and a nested key whose target   *)
(* is not the target of the root key.                                       *)
DocChained ==
    << <<"tool", <<
          <<"chain", <<
              <<S("args"), List(<<Str(S("host"))>>)>>,
              <<K("host", "arch"), Dict(<< <<S("linux"), Str(S("x64"))>>,
                                          <<S("mac"), Str(S("arm"))>> >>)>>,
              <<K("arch", "file_ext"), Dict(<< <<S("x64"), Str(S("run"))>>,
                                              <<S("arm"), Str(S("dmg"))>> >>)>>,
              <<S("url_template"), Str(P("host") \o S("/") \o P("arch") \o S(".")
                                       \o P("file_ext"))>> >> >>,
          <<"late", <<
              <<S("args"), List(<<Str(S("host"))>>)>>,
              <<K("arch", "file_ext"), Dict(<< <<S("x64"), Str(S("run"))>>,
                                              <<S("arm"), Str(S("dmg"))>> >>)>>,
              <<K("host", "arch"), Dict(<< <<S("linux"), Str(S("x64"))>>,
                                          <<S("mac"), Str(S("arm"))>> >>)>>,
              <<S("url_template"), Str(P("host") \o S("/") \o P("arch") \o S(".")
                                       \o P("file_ext"))>> >> >>,
          <<"shadow", <<
              <<S("args"), List(<<Str(S("host"))>>)>>,
              <<K("host", "host"), Dict(<< <<S("linux"), Str(S("Linux"))>>,
                                          <<S("mac"), Str(S("macOS"))>> >>)>>,
              <<S("url_template"), Str(P("host"))>> >> >>,
          <<"inner", <<
              <<S("args"), List(<<Str(S("host")), Str(S("bits"))>>)>>,
              <<K("host", "arch"), Dict(<<
                  <<S("linux"), Dict(<< <<K("bits", "file_ext"),
                        Dict(<< <<B64, Str(S("run64"))>> >>)>> >>)>>,
                  <<S("mac"), Str(S("arm"))>> >>)>>,
              <<S("url_template"), Str(P("host") \o S(".") \o P("file_ext"))>> >> >> >> >> >>

Documents == {DocFixture, DocBadSchemas, DocNested, DocTables, DocChained}

----------------------------------------------------------------------------
(* RepoModel *)

ReservedKeys == {S("args"), S("url_template"), S("allowed_values")}

(* Schema.__init__: name_converters is the dict object passed in, which is  *)
(* the variant's own dict inside RepoModel.definition; it is kept here as   *)
(* the place of that dict, and read through name_converters below.          *)
Schema(tool_name, schema_name, args, url_template, allowed_values) ==
    [tool_name      |-> tool_name,
     schema_name    |-> schema_name,
     args           |-> args,
     url_template   |-> url_template,
     allowed_values |-> IF allowed_values.v # <<>> THEN allowed_values ELSE Dict(<<>>)]

(* name_converters with the rules in the reverse of the stored order. *)
name_converters_reversed(defn, sch) ==
    LET items == DictGet(DictGet(defn, sch.tool_name), sch.schema_name)
    IN  [i \in 1..Len(items) |-> items[Len(items) + 1 - i]]

name_converters(defn, sch) == DictGet(DictGet(defn, sch.tool_name), sch.schema_name)

list_tool_names(defn) == DictKeys(defn)

list_schemas(defn, tool_name) ==
    IF DictHas(defn, tool_name)
    THEN Ok(DictKeys(DictGet(defn, tool_name)))
    ELSE Raise("KeyError", S(tool_name))

(* get_schema reading allowed_values with get instead of pop. *)
get_schema_keeps_allowed_values(defn, tool_name, name) ==
    IF ~DictHas(defn, tool_name)
    THEN [definition |-> defn, ret |-> Raise("KeyError", S(tool_name))]
    ELSE IF ~DictHas(DictGet(defn, tool_name), name)
    THEN [definition |-> defn, ret |-> Raise("KeyError", S(name))]
    ELSE
    LET tool   == DictGet(defn, tool_name)
        s0     == DictGet(tool, name)
        put(s) == DictSet(defn, tool_name, DictSet(tool, name, s))
        s1     == DictPop(s0, S("args"))
        s2     == DictPop(s1, S("url_template"))
    IN  IF ~DictHas(s0, S("args"))
        THEN [definition |-> defn, ret |-> Raise("KeyError", S("args"))]
        ELSE IF ~DictHas(s1, S("url_template"))
        THEN [definition |-> put(s1), ret |-> Raise("KeyError", S("url_template"))]
        ELSE [definition |-> put(s2),
              ret |-> Ok(Schema(tool_name, name,
                                DictGet(s0, S("args")),
                                DictGet(s1, S("url_template")),
                                IF DictHas(s2, S("allowed_values"))
                                THEN DictGet(s2, S("allowed_values"))
                                ELSE Dict(<<>>)))]

(* get_schema: the definition after the call and what the call returns.     *)
(* s is the variant's dict object itself, so each pop changes definition.   *)
get_schema(defn, tool_name, name) ==
    IF ~DictHas(defn, tool_name)
    THEN [definition |-> defn, ret |-> Raise("KeyError", S(tool_name))]
    ELSE IF ~DictHas(DictGet(defn, tool_name), name)
    THEN [definition |-> defn, ret |-> Raise("KeyError", S(name))]
    ELSE
    LET tool   == DictGet(defn, tool_name)
        s0     == DictGet(tool, name)
        put(s) == DictSet(defn, tool_name, DictSet(tool, name, s))
        s1     == DictPop(s0, S("args"))
        s2     == DictPop(s1, S("url_template"))
        s3     == DictPop(s2, S("allowed_values"))
    IN  IF ~DictHas(s0, S("args"))
        THEN [definition |-> defn, ret |-> Raise("KeyError", S("args"))]
        ELSE IF ~DictHas(s1, S("url_template"))
        THEN [definition |-> put(s1), ret |-> Raise("KeyError", S("url_template"))]
        ELSE [definition |-> put(s3),
              ret |-> Ok(Schema(tool_name, name,
                                DictGet(s0, S("args")),
                                DictGet(s1, S("url_template")),
                                IF DictHas(s2, S("allowed_values"))
                                THEN DictGet(s2, S("allowed_values"))
                                ELSE Dict(<<>>)))]

----------------------------------------------------------------------------
(* Schema.fill_template *)

(* A dict of variables is a function from names to strings. *)
EmptyVars == [x \in {} |-> <<>>]

SetVar(f, k, val) == [x \in (DOMAIN f) \cup {k} |-> IF x = k THEN val ELSE f[x]]

MapOf(pairs) == [k \in {pairs[i][1] : i \in 1..Len(pairs)} |-> DictGet(pairs, k)]

(* `variables = {k: v for k, v in args.items()}` builds a new dict object;  *)
(* the alternative is the caller's own object.                              *)
variables_alias == "a"

variables_object == "v"

(* f"{semver.major}.{semver.minor}" *)
major_minor_semver(ver) == NumStr(ver[1]) \o <<".">> \o NumStr(ver[2])

semver_underscores_no_patch(ver) == NumStr(ver[1]) \o <<"_">> \o NumStr(ver[2])

(* f"{semver.major}_{semver.minor}_{semver.patch}" *)
semver_underscores(ver) ==
    NumStr(ver[1]) \o <<"_">> \o NumStr(ver[2]) \o <<"_">> \o NumStr(ver[3])

(* choose_by_spec returning the value under the last range that contains   *)
(* the version.                                                             *)
RECURSIVE choose_by_spec_last(_, _)
choose_by_spec_last(items, sv) ==
    IF items = <<>>
    THEN SchemaError(MsgNoResolution \o VersionStr(sv))
    ELSE LET spec == SimpleSpec(Head(items)[1])
             rest == choose_by_spec_last(Tail(items), sv)
         IN  IF ~spec.ok THEN spec
             ELSE IF rest.ok THEN rest
             ELSE IF SpecContains(spec.value, sv) THEN Ok(Head(items)[2])
             ELSE rest

(* The loop of choose_translation over the items of a semver table. *)
RECURSIVE choose_by_spec(_, _)
choose_by_spec(items, sv) ==
    IF items = <<>>
    THEN SchemaError(MsgNoResolution \o VersionStr(sv))
    ELSE LET spec == SimpleSpec(Head(items)[1])
         IN  IF ~spec.ok THEN spec
             ELSE IF SpecContains(spec.value, sv) THEN Ok(Head(items)[2])
             ELSE choose_by_spec(Tail(items), sv)

choose_translation(key, _conversion, variables, sv) ==
    IF key = S("semver")
    THEN IF _conversion.t # "dict" THEN Raise("AttributeError", S("items"))
         ELSE IF sv = Unbound THEN Raise("NameError", S("semver"))
         ELSE choose_by_spec(_conversion.v, sv)
    ELSE IF key \notin DOMAIN variables THEN Raise("KeyError", key)
         ELSE IF _conversion.t # "dict" THEN Raise("TypeError", S("indices"))
         ELSE IF ~DictHas(_conversion.v, variables[key]) THEN Raise("KeyError", variables[key])
         ELSE Ok(DictGet(_conversion.v, variables[key]))

(* The test of line 46 left out. *)
key_always_recognized(translation_key) == TRUE

(* line 46: "-to-" in translation_key *)
key_is_recognized(translation_key) ==
    \E i \in 1..Len(translation_key) : translation_key[i] = "-to-"

(* translate_node without the test of lines 57-58. *)
translate_node_first_key(node, _from, _to) ==
    IF node.t = "str"
    THEN [kind |-> "return", to |-> _to, value |-> node.v,
          translation |-> node, from |-> _from]
    ELSE IF node.t # "dict"
    THEN [kind |-> "raise", exc |-> SchemaError(MsgNeither),
          translation |-> node, from |-> _from]
    ELSE IF Len(node.v) = 0
    THEN [kind |-> "raise", exc |-> Raise("IndexError", S("keys")),
          translation |-> node, from |-> _from]
    ELSE [kind |-> "recurse", key |-> node.v[1][1], conv |-> node.v[1][2],
          translation |-> node, from |-> _from]

(* translate_node recursing with the node itself as the next table. *)
translate_node_same_table(node, _from, _to) ==
    IF node.t = "str"
    THEN [kind |-> "return", to |-> _to, value |-> node.v,
          translation |-> node, from |-> _from]
    ELSE IF node.t # "dict"
    THEN [kind |-> "raise", exc |-> SchemaError(MsgNeither),
          translation |-> node, from |-> _from]
    ELSE IF Len(node.v) # 1
    THEN [kind |-> "raise", exc |-> SchemaError(MsgOneKey),
          translation |-> node, from |-> _from]
    ELSE [kind |-> "recurse", key |-> node.v[1][1], conv |-> node,
          translation |-> node, from |-> _from]

(* translate_node handing the target of the current key down to the key of *)
(* the nested node.                                                         *)
translate_node_keeps_target(node, _from, _to) ==
    IF node.t = "str"
    THEN [kind |-> "return", to |-> _to, value |-> node.v,
          translation |-> node, from |-> _from]
    ELSE IF node.t # "dict"
    THEN [kind |-> "raise", exc |-> SchemaError(MsgNeither),
          translation |-> node, from |-> _from]
    ELSE IF Len(node.v) # 1
    THEN [kind |-> "raise", exc |-> SchemaError(MsgOneKey),
          translation |-> node, from |-> _from]
    ELSE [kind |-> "recurse",
          key |-> IF key_is_recognized(node.v[1][1])
                  THEN Split(node.v[1][1], "-to-")[1] \o <<"-to-">> \o _to
                  ELSE node.v[1][1],
          conv |-> node.v[1][2], translation |-> node, from |-> _from]

(* lines 51-59: what recursive_translate does with the chosen translation:  *)
(* return it, raise, or call itself on the single item of the mapping.      *)
translate_node(node, _from, _to) ==
    IF node.t = "str"
    THEN [kind |-> "return", to |-> _to, value |-> node.v,
          translation |-> node, from |-> _from]
    ELSE IF node.t # "dict"
    THEN [kind |-> "raise", exc |-> SchemaError(MsgNeither),
          translation |-> node, from |-> _from]
    ELSE IF Len(node.v) # 1
    THEN [kind |-> "raise", exc |-> SchemaError(MsgOneKey),
          translation |-> node, from |-> _from]
    ELSE [kind |-> "recurse", key |-> node.v[1][1], conv |-> node.v[1][2],
          translation |-> node, from |-> _from]

(* One call of recursive_translate, up to its return, its raise or its      *)
(* recursive call.                                                          *)
recursive_translate(translation_key, _conversion, variables, sv) ==
    LET parts == Split(translation_key, "-to-")
        _from == parts[1]
        _to   == parts[2]
        tr    == choose_translation(_from, _conversion, variables, sv)
        fail(e, f) == [kind |-> "raise", exc |-> e, translation |-> None, from |-> f]
    IN  IF ~key_is_recognized(translation_key)
        THEN fail(SchemaError(MsgUnrecognizedKey), <<>>)
        ELSE IF Len(parts) # 2 THEN fail(Raise("ValueError", S("unpack")), <<>>)
        ELSE IF ~tr.ok THEN fail(tr, _from)
        ELSE translate_node(tr.value, _from, _to)

(* url_format putting nothing in the place of a name that is not bound.    *)
RECURSIVE url_format_blank(_, _)
url_format_blank(template, variables) ==
    IF template = <<>> THEN Ok(<<>>)
    ELSE IF Head(template) = "}" THEN Raise("ValueError", S("}"))
    ELSE IF Head(template) # "{"
    THEN LET rest == url_format_blank(Tail(template), variables)
         IN  IF rest.ok THEN Ok(<<Head(template)>> \o rest.value) ELSE rest
    ELSE IF Len(template) < 3 \/ template[3] # "}" THEN Raise("ValueError", S("{"))
    ELSE LET rest == url_format_blank(SubSeq(template, 4, Len(template)), variables)
         IN  IF ~rest.ok THEN rest
             ELSE IF S(template[2]) \in DOMAIN variables
             THEN Ok(variables[S(template[2])] \o rest.value)
             ELSE rest

(* url_template.format with the variables as keyword arguments, on a      *)
(* template of literal tokens and "{name}" placeholders.                   *)
RECURSIVE url_format(_, _)
url_format(template, variables) ==
    IF template = <<>> THEN Ok(<<>>)
    ELSE IF Head(template) = "}" THEN Raise("ValueError", S("}"))
    ELSE IF Head(template) # "{"
    THEN LET rest == url_format(Tail(template), variables)
         IN  IF rest.ok THEN Ok(<<Head(template)>> \o rest.value) ELSE rest
    ELSE IF Len(template) < 3 \/ template[3] # "}" THEN Raise("ValueError", S("{"))
    ELSE IF S(template[2]) \notin DOMAIN variables THEN Raise("KeyError", S(template[2]))
    ELSE LET rest == url_format(SubSeq(template, 4, Len(template)), variables)
         IN  IF rest.ok THEN Ok(variables[S(template[2])] \o rest.value) ELSE rest

(* Schema.ALLOWED_VALUES *)
GlobalAllowedValues ==
    << <<S("host"), List(<<Str(S("windows")), Str(S("linux")), Str(S("mac"))>>)>>,
       <<S("bits"), List(<<Str(B64), Str(B32)>>)>> >>

----------------------------------------------------------------------------
(* Inputs *)

V126 == <<"1", ".", "2", ".", "6">>

V100 == <<"1", ".", "0", ".", "0">>

V409 == <<"4", ".", "0", ".", "9">>

V419 == <<"4", ".", "1", ".", "9">>

V4100 == <<"4", ".", "1", "0", ".", "0">>

V12 == <<"1", ".", "2">>

ArgsInputs ==
    { MapOf(<< <<S("semver"), V126>>, <<S("file_ext"), S("txt")>> >>),
      MapOf(<< <<S("semver"), V126>>, <<S("host"), S("windows")>> >>),
      MapOf(<< <<S("semver"), V4100>>, <<S("host"), S("mac")>>, <<S("bits"), B64>> >>),
      MapOf(<< <<S("semver"), V409>>, <<S("host"), S("mac")>>, <<S("bits"), B64>> >>),
      MapOf(<< <<S("semver"), V409>>, <<S("host"), S("windows")>>, <<S("bits"), B64>> >>),
      MapOf(<< <<S("semver"), V419>>, <<S("host"), S("windows")>>, <<S("bits"), B64>> >>),
      MapOf(<< <<S("semver"), V419>>, <<S("host"), S("windows")>>, <<S("bits"), B32>> >>),
      MapOf(<< <<S("semver"), V100>> >>),
      MapOf(<< <<S("semver"), V126>>, <<S("host"), S("linux")>>, <<S("bits"), B64>> >>),
      MapOf(<< <<S("semver"), V12>>, <<S("host"), S("linux")>> >>),
      MapOf(<< <<S("semver"), V126>>, <<S("host"), S("solaris")>> >>),
      MapOf(<< <<S("semver"), V419>>, <<S("host"), S("bsd")>>, <<S("bits"), B32>> >>),
      MapOf(<< <<S("host"), S("bsd")>>, <<S("bits"), B64>> >>),
      MapOf(<< <<S("host"), S("mac")>>, <<S("bits"), B64>> >>),
      MapOf(<< <<S("host"), S("linux")>> >>),
      EmptyVars }

ToolNamesOf(doc) == {doc[i][1] : i \in 1..Len(doc)} \cup {"nosuch"}

SchemaNamesOf(doc) ==
    UNION {{doc[i][2][j][1] : j \in 1..Len(doc[i][2])} : i \in 1..Len(doc)} \cup {"nosuch"}

NoPrev == [none |-> TRUE]

----------------------------------------------------------------------------
(* State machine *)

Init ==
    /\ document \in Documents
    /\ definition = document
    /\ schema = NoSchema
    /\ last = None
    /\ pc = "idle"
    /\ heap = [a |-> EmptyVars, v |-> EmptyVars]
    /\ variables_ref = "v"
    /\ semver = Unbound
    /\ idx = 0
    /\ frame = None
    /\ translation = None
    /\ path = <<>>
    /\ args0 = EmptyVars
    /\ result = NoResult
    /\ prev = NoPrev
    /\ ALLOWED_VALUES = GlobalAllowedValues
    /\ allowed = None
    /\ gen = None
    /\ fetch = None
    /\ call = None

callVars == <<pc, heap, variables_ref, semver, idx, frame, translation, path, args0,
              result, prev>>

(* RepoModel.list_tool_names() *)
ListToolNames ==
    /\ pc = "idle"
    /\ last' = [op |-> "list_tool_names", ret |-> Ok(list_tool_names(definition))]
    /\ UNCHANGED <<document, definition, schema, callVars>>
    /\ UNCHANGED <<urlVars, metaVars>>

(* RepoModel.list_schemas(tool_name) *)
ListSchemas ==
    /\ pc = "idle"
    /\ \E tool_name \in ToolNamesOf(document) :
          last' = [op |-> "list_schemas", ret |-> list_schemas(definition, tool_name)]
    /\ UNCHANGED <<document, definition, schema, callVars>>
    /\ UNCHANGED <<urlVars, metaVars>>

(* schema = RepoModel.get_schema(tool_name, name).  A call that raises      *)
(* leaves the caller with the schema it had; a call that returns starts     *)
(* the caller afresh with the new schema.                                   *)
GetSchema ==
    /\ pc = "idle"
    /\ \E tool_name \in ToolNamesOf(document), name \in SchemaNamesOf(document) :
          LET r == get_schema(definition, tool_name, name)
          IN  /\ definition' = r.definition
              /\ last' = [op |-> "get_schema", ret |-> r.ret]
              /\ IF r.ret.ok
                 THEN /\ schema' = r.ret.value
                      /\ heap' = [a |-> EmptyVars, v |-> EmptyVars]
                      /\ variables_ref' = "v"
                      /\ semver' = Unbound
                      /\ idx' = 0
                      /\ frame' = None
                      /\ translation' = None
                      /\ path' = <<>>
                      /\ args0' = EmptyVars
                      /\ result' = NoResult
                      /\ prev' = NoPrev
                 ELSE UNCHANGED <<schema, heap, variables_ref, semver, idx, frame,
                                  translation, path, args0, result, prev>>
    /\ UNCHANGED <<document, pc>>
    /\ UNCHANGED <<urlVars, metaVars>>

Variables == heap[variables_ref]

(* schema.fill_template(args) is called: line 32 *)
FillTemplate ==
    /\ pc = "idle"
    /\ schema # NoSchema
    /\ \E args \in ArgsInputs :
          /\ heap' = [a |-> args, v |-> args]
          /\ args0' = args
    /\ variables_ref' = variables_object
    /\ prev' = IF result # NoResult /\ heap'.a = args0
                THEN [args |-> args0, result |-> result]
                ELSE NoPrev
    /\ result' = NoResult
    /\ last' = None
    /\ semver' = Unbound
    /\ idx' = 1
    /\ frame' = None
    /\ translation' = None
    /\ path' = <<>>
    /\ pc' = "derive"
    /\ UNCHANGED <<document, definition, schema>>
    /\ UNCHANGED <<urlVars, metaVars>>

(* lines 61-64 *)
Derive ==
    /\ pc = "derive"
    /\ IF S("semver") \in DOMAIN heap.a
       THEN LET ver == Version(heap.a[S("semver")])
            IN  IF ver.ok
                THEN /\ semver' = ver.value
                     /\ heap' = [heap EXCEPT ![variables_ref] =
                            SetVar(SetVar(@, S("major_minor_semver"),
                                          major_minor_semver(ver.value)),
                                   S("semver_underscores"),
                                   semver_underscores(ver.value))]
                     /\ pc' = "loop"
                     /\ UNCHANGED result
                ELSE /\ result' = ver
                     /\ pc' = "idle"
                     /\ UNCHANGED <<semver, heap>>
       ELSE /\ pc' = "loop"
            /\ UNCHANGED <<semver, heap, result>>
    /\ UNCHANGED <<document, definition, schema, last, variables_ref, idx, frame,
                   translation, path, args0, prev>>
    /\ UNCHANGED <<urlVars, metaVars>>

(* line 65: the next item of name_converters, or the end of the loop *)
Loop ==
    /\ pc = "loop"
    /\ LET items == name_converters(definition, schema)
       IN  IF idx <= Len(items)
           THEN /\ frame' = [key |-> items[idx][1], conv |-> items[idx][2]]
                /\ pc' = "translate"
           ELSE /\ frame' = None
                /\ pc' = "format"
    /\ translation' = None
    /\ path' = <<>>
    /\ UNCHANGED <<document, definition, schema, last, heap, variables_ref, semver, idx,
                   args0, result, prev>>
    /\ UNCHANGED <<urlVars, metaVars>>

(* lines 45-59 and 66-67: one level of recursive_translate *)
Translate ==
    /\ pc = "translate"
    /\ LET r == recursive_translate(frame.key, frame.conv, Variables, semver)
       IN  /\ translation' = r.translation
           /\ path' = IF r.translation = None THEN path
                      ELSE Append(path, [key |-> frame.key, from |-> r.from,
                                         table |-> frame.conv, chosen |-> r.translation])
           /\ CASE r.kind = "raise" ->
                     /\ result' = r.exc
                     /\ pc' = "idle"
                     /\ UNCHANGED <<heap, idx, frame>>
                [] r.kind = "return" ->
                     /\ heap' = [heap EXCEPT ![variables_ref] = SetVar(@, r.to, r.value)]
                     /\ idx' = idx + 1
                     /\ pc' = "loop"
                     /\ UNCHANGED <<result, frame>>
                [] r.kind = "recurse" ->
                     /\ frame' = [key |-> r.key, conv |-> r.conv]
                     /\ UNCHANGED <<heap, idx, pc, result>>
    /\ UNCHANGED <<document, definition, schema, last, variables_ref, semver, args0, prev>>
    /\ UNCHANGED <<urlVars, metaVars>>

(* line 69 *)
Format ==
    /\ pc = "format"
    /\ result' = url_format(schema.url_template.v, Variables)
    /\ pc' = "idle"
    /\ UNCHANGED <<document, definition, schema, last, heap, variables_ref, semver, idx,
                   frame, translation, path, args0, prev>>
    /\ UNCHANGED <<urlVars, metaVars>>

Next ==
    \/ ListToolNames
    \/ ListSchemas
    \/ GetSchema
    \/ FillTemplate
    \/ Derive
    \/ Loop
    \/ Translate
    \/ Format

Spec == Init /\ [][Next]_vars

----------------------------------------------------------------------------
(* Properties *)

(* The variant of the loaded document that the current schema came from. *)
LoadedVariant == DictGet(DictGet(document, schema.tool_name), schema.schema_name)

HasSeparator(key) == \E i \in 1..Len(key) : key[i] = "-to-"

(* C1: RepoModel.definition always equals the document that was loaded, so  *)
(* get_schema can be repeated for the same product and variant.             *)
C1_DefinitionEqualsDocument == definition = document

(* C2: the schema returned by get_schema carries the values of the reserved *)
(* keys of its variant (no allowed values when that key is absent), its     *)
(* conversion rules are the remaining items in stored order, and no         *)
(* reserved key is evaluated as a conversion rule.                          *)
C2_SchemaSeparatesReservedKeys ==
    /\ schema # NoSchema =>
          /\ schema.args = DictGet(LoadedVariant, S("args"))
          /\ schema.url_template = DictGet(LoadedVariant, S("url_template"))
          /\ schema.allowed_values =
                IF DictHas(LoadedVariant, S("allowed_values"))
                THEN DictGet(LoadedVariant, S("allowed_values"))
                ELSE Dict(<<>>)
          /\ name_converters(definition, schema) =
                SelectSeq(LoadedVariant, LAMBDA item : item[1] \notin ReservedKeys)
    /\ frame # None => frame.key \notin ReservedKeys

C2_Witness ==
    /\ schema # NoSchema
    /\ schema.schema_name = "alt"
    /\ schema.allowed_values.v # <<>>
    /\ pc = "format"


(* The source variable a conversion key names. *)
SourceOf(key) == Split(key, "-to-")[1]

InRange(k, ver) == SimpleSpec(k).ok /\ SpecContains(SimpleSpec(k).value, ver)

(* The running fill_template call ended by a raise of recursive_translate   *)
(* before a translation was chosen.                                         *)
RaisedBeforeChoice == pc = "idle" /\ frame # None /\ translation = None

(* C3: at every level whose source is semver the value under the first key, *)
(* in stored order, whose range contains the input version is selected;     *)
(* when no range contains it the call fails with SchemaError("Schema        *)
(* contains no resolution for version <value>").                            *)
C3_FirstContainingRange ==
    /\ \A n \in 1..Len(path) :
          path[n].from = S("semver") =>
             \E i \in 1..Len(path[n].table.v) :
                /\ InRange(path[n].table.v[i][1], semver)
                /\ \A j \in 1..(i - 1) : ~InRange(path[n].table.v[j][1], semver)
                /\ path[n].chosen = path[n].table.v[i][2]
    /\ ( /\ RaisedBeforeChoice
         /\ HasSeparator(frame.key)
         /\ SourceOf(frame.key) = S("semver")
         /\ semver # Unbound
         /\ frame.conv.t = "dict"
         /\ \A i \in 1..Len(frame.conv.v) :
               SimpleSpec(frame.conv.v[i][1]).ok /\ ~InRange(frame.conv.v[i][1], semver) )
       => result = SchemaError(MsgNoResolution \o args0[S("semver")])

C3_Witness ==
    /\ Len(path) = 3
    /\ path[3].from = S("semver")
    /\ path[3].chosen = Str(S("win-x64"))
    /\ pc = "loop"

(* C4: when the source variable of a rule that is not a semver rule is      *)
(* unbound, or its value is not a key of the rule's table, the call fails   *)
(* with a SchemaError.                                                      *)
C4_LookupFailureIsSchemaError ==
    ( /\ RaisedBeforeChoice
      /\ HasSeparator(frame.key)
      /\ Len(Split(frame.key, "-to-")) = 2
      /\ SourceOf(frame.key) # S("semver")
      /\ frame.conv.t = "dict"
      /\ \/ SourceOf(frame.key) \notin DOMAIN Variables
         \/ ~DictHas(frame.conv.v, Variables[SourceOf(frame.key)]) )
    => (~result.ok /\ result.exc = "SchemaError")

(* C5: evaluating a conversion key without "-to-", at the root or as the    *)
(* single key of a nested node, fails with SchemaError("Schema contains     *)
(* unrecognized key"); a schema with such a root key never yields a URL.    *)
C5_UnrecognizedKey ==
    /\ (pc = "idle" /\ frame # None /\ ~HasSeparator(frame.key))
          => result = SchemaError(MsgUnrecognizedKey)
    /\ (pc = "idle" /\ schema # NoSchema /\ result # NoResult
          /\ \E i \in 1..Len(name_converters(definition, schema)) :
                ~HasSeparator(name_converters(definition, schema)[i][1]))
          => ~result.ok

C5_Witness ==
    /\ pc = "idle"
    /\ frame # None
    /\ ~HasSeparator(frame.key)
    /\ Len(path) = 1
    /\ result = SchemaError(MsgUnrecognizedKey)

(* C6: a selected node that is neither a string nor a mapping fails with    *)
(* SchemaError("Translator object is neither a string nor a dictionary"),   *)
(* a mapping with no key or several keys fails with a SchemaError, and      *)
(* every level above the last one was a mapping with exactly one key.       *)
C6_NodeShapes ==
    /\ (translation # None /\ translation.t \notin {"str", "dict"})
          => (pc = "idle" /\ result = SchemaError(MsgNeither))
    /\ (translation # None /\ translation.t = "dict" /\ Len(translation.v) # 1)
          => (pc = "idle" /\ ~result.ok /\ result.exc = "SchemaError")
    /\ \A n \in 1..(Len(path) - 1) :
          /\ path[n].chosen.t = "dict"
          /\ Len(path[n].chosen.v) = 1
          /\ path[n + 1].key = path[n].chosen.v[1][1]

C6_Witness ==
    /\ Len(path) = 2
    /\ translation # None
    /\ translation.t = "list"
    /\ result = SchemaError(MsgNeither)


(* The target variable a conversion key names. *)
TargetOf(key) == Split(key, "-to-")[2]

(* The item of name_converters that the current chain started from. *)
RootItem ==
    name_converters(definition, schema)[IF pc = "loop" THEN idx - 1 ELSE idx]

RECURSIVE NodeSize(_)
NodeSize(node) ==
    IF node.t = "dict" /\ node.v # <<>>
    THEN NodeSize(Head(node.v)[2]) + NodeSize(Dict(Tail(node.v)))
    ELSE 1

ArgsWindows64(ver) ==
    MapOf(<< <<S("semver"), ver>>, <<S("host"), S("windows")>>, <<S("bits"), B64>> >>)

UrlBinary(ver, arch) == ver \o S("/QtInstallerFramework-") \o S(arch) \o S(".zip")

C7_Levels ==
    /\ path # <<>> =>
          /\ path[1].key = RootItem[1]
          /\ path[1].table = RootItem[2]
    /\ \A n \in 1..Len(path) :
          /\ path[n].from = SourceOf(path[n].key)
          /\ IF path[n].from = S("semver")
             THEN \E i \in 1..Len(path[n].table.v) :
                     /\ InRange(path[n].table.v[i][1], semver)
                     /\ \A j \in 1..(i - 1) : ~InRange(path[n].table.v[j][1], semver)
                     /\ path[n].chosen = path[n].table.v[i][2]
             ELSE \/ pc = "loop" /\ path[n].from = TargetOf(path[Len(path)].key)
                  \/ /\ DictHas(path[n].table.v, Variables[path[n].from])
                     /\ path[n].chosen = DictGet(path[n].table.v, Variables[path[n].from])
    /\ \A n \in 1..(Len(path) - 1) :
          /\ path[n + 1].key = path[n].chosen.v[1][1]
          /\ path[n + 1].table = path[n].chosen.v[1][2]
    /\ (pc = "loop" /\ path # <<>>) =>
          /\ path[Len(path)].chosen.t = "str"
          /\ Variables[TargetOf(path[Len(path)].key)] = path[Len(path)].chosen.v
    /\ (pc = "idle" /\ result # NoResult /\ schema.schema_name = "binary") =>
          /\ args0 = ArgsWindows64(V419) => result = Ok(UrlBinary(V419, "Windows-x86_64"))
          /\ args0 = ArgsWindows64(V409) => result = Ok(UrlBinary(V409, "win-x64"))

C7_Step ==
    /\ (pc = "translate" /\ pc' = "translate") =>
          NodeSize(frame'.conv) < NodeSize(frame.conv)
    /\ (pc = "translate" /\ pc' = "loop") => idx' = idx + 1
    /\ (pc = "loop" /\ pc' = "translate") => idx' = idx /\ idx <= Len(name_converters(definition, schema))

(* C7: a nested chain is resolved level by level, each level against the    *)
(* bound value of its own source variable; every recursive call works on a  *)
(* strictly smaller tree and every return moves the loop to the next rule,  *)
(* so evaluation terminates; the value bound is the string leaf reached.    *)
C7_LevelByLevel == [](C7_Levels) /\ [][C7_Step]_vars

C7_Witness ==
    /\ pc = "idle"
    /\ schema # NoSchema
    /\ schema.schema_name = "binary"
    /\ args0 = ArgsWindows64(V409)
    /\ result = Ok(UrlBinary(V409, "win-x64"))

(* The state of a fill_template call once lines 61-64 have run. *)
AfterDerive == pc \in {"loop", "translate", "format"} \/ (pc = "idle" /\ result.ok)

(* C8: with semver = major.minor.patch in the input, major_minor_semver is  *)
(* "<major>.<minor>" and semver_underscores is "<major>_<minor>_<patch>"    *)
(* from line 64 up to the template substitution; without semver in the      *)
(* input neither is bound.                                                  *)
C8_DerivedVariables ==
    AfterDerive =>
       IF S("semver") \in DOMAIN args0
       THEN LET parts == Split(args0[S("semver")], ".")
            IN  /\ Len(parts) = 3
                /\ Variables[S("major_minor_semver")] = parts[1] \o <<".">> \o parts[2]
                /\ Variables[S("semver_underscores")] =
                      parts[1] \o <<"_">> \o parts[2] \o <<"_">> \o parts[3]
       ELSE /\ S("major_minor_semver") \notin DOMAIN Variables
            /\ S("semver_underscores") \notin DOMAIN Variables

C8_Witness ==
    /\ pc = "format"
    /\ S("semver_underscores") \in DOMAIN Variables
    /\ Variables[S("semver_underscores")] = <<"4", "_", "1", "0", "_", "0">>
    /\ Variables[S("major_minor_semver")] = <<"4", ".", "1", "0">>

(* The running fill_template call ended at line 69. *)
FormatDone ==
    /\ pc = "idle"
    /\ result # NoResult
    /\ frame = None
    /\ ~(S("semver") \in DOMAIN args0 /\ semver = Unbound)

(* C9: the URL returned is the template with every placeholder replaced by  *)
(* the value bound to its name; the input variables are among the bound     *)
(* ones; when a placeholder's name is not bound the call fails.             *)
C9_TemplateSubstitution ==
    FormatDone =>
       LET tpl   == schema.url_template.v
           names == {i \in 2..Len(tpl) : tpl[i - 1] = "{"}
       IN  /\ DOMAIN args0 \subseteq DOMAIN Variables
           /\ IF \A i \in names : S(tpl[i]) \in DOMAIN Variables
              THEN result = Ok(Concat([i \in 1..Len(tpl) |->
                                  IF tpl[i] \in {"{", "}"} THEN <<>>
                                  ELSE IF i \in names THEN Variables[S(tpl[i])]
                                  ELSE <<tpl[i]>>]))
              ELSE ~result.ok

C9_Witness ==
    /\ FormatDone
    /\ schema.schema_name = "default"
    /\ result = Ok(V126 \o S("/qt-designstudio-") \o S("windows-x86") \o S("-") \o V126
                   \o S("-community.") \o S("exe"))

C10_State ==
    /\ (pc # "idle" \/ result # NoResult) => heap.a = args0
    /\ (pc = "idle" /\ result # NoResult /\ prev # NoPrev) =>
          (prev.args = args0 /\ result = prev.result)

C10_Step ==
    (pc # "idle" \/ pc' # "idle") =>
       /\ schema' = schema
       /\ definition' = definition
       /\ args0' = args0 \/ pc = "idle"

(* C10: a fill_template call leaves the caller's args mapping, the schema   *)
(* and its conversion rules as they were, and a call repeated with equal    *)
(* args on the same schema gives the result of the call before it.          *)
C10_Pure == [](C10_State) /\ [][C10_Step]_vars

C10_Witness ==
    /\ pc = "idle"
    /\ prev # NoPrev
    /\ result # NoResult
    /\ result.ok
    /\ S("semver_underscores") \in DOMAIN heap.v
    /\ heap.a = args0


----------------------------------------------------------------------------
(* Schema.list_allowed_values_for and Schema.yield_urls *)

MsgNotTracked(key) ==
    S("Allowed values for the key '") \o key \o S("' are not tracked.")

(* list_allowed_values_for looking into the global table first. *)
list_allowed_values_for_global_first(sch, global, key) ==
    IF DictHas(global, key) THEN Ok(DictGet(global, key))
    ELSE IF DictHas(sch.allowed_values.v, key) THEN Ok(DictGet(sch.allowed_values.v, key))
    ELSE Raise("KeyError", MsgNotTracked(key))

(* lines 71-76 *)
list_allowed_values_for(sch, global, key) ==
    IF DictHas(sch.allowed_values.v, key) THEN Ok(DictGet(sch.allowed_values.v, key))
    ELSE IF DictHas(global, key) THEN Ok(DictGet(global, key))
    ELSE Raise("KeyError", MsgNotTracked(key))

(* recursive_translate with its recursive calls, lines 45-59. *)
(* A value computed once and used under a name, as a local variable is. *)
Bind(value, In(_)) == CHOOSE out \in {In(v) : v \in {value}} : TRUE

RECURSIVE translate_chain(_, _, _, _)
translate_chain(translation_key, _conversion, variables, sv) ==
    Bind(recursive_translate(translation_key, _conversion, variables, sv),
         LAMBDA r : IF r.kind = "recurse"
                    THEN translate_chain(r.key, r.conv, variables, sv) ELSE r)

(* The loop of lines 65-67 over the items of name_converters. *)
RECURSIVE translate_items(_, _, _)
translate_items(items, variables, sv) ==
    IF items = <<>> THEN Ok(variables)
    ELSE Bind(translate_chain(Head(items)[1], Head(items)[2], variables, sv),
              LAMBDA r : IF r.kind = "raise" THEN r.exc
                         ELSE Bind(SetVar(variables, r.to, r.value),
                                   LAMBDA bound : translate_items(Tail(items), bound, sv)))

(* fill_template as one function of the schema, its conversion rules and    *)
(* the args: lines 31-69.                                                   *)
fill_template(sch, items, args) ==
    IF S("semver") \in DOMAIN args
    THEN Bind(Version(args[S("semver")]),
              LAMBDA ver :
                 IF ~ver.ok THEN ver
                 ELSE Bind(SetVar(SetVar(args, S("major_minor_semver"),
                                         major_minor_semver(ver.value)),
                                  S("semver_underscores"), semver_underscores(ver.value)),
                           LAMBDA derived :
                              Bind(translate_items(items, derived, ver.value),
                                   LAMBDA bound :
                                      IF ~bound.ok THEN bound
                                      ELSE url_format(sch.url_template.v, bound.value))))
    ELSE Bind(translate_items(items, args, Unbound),
              LAMBDA bound : IF ~bound.ok THEN bound
                             ELSE url_format(sch.url_template.v, bound.value))

(* The stepwise fill_template of Spec gives what fill_template gives. *)
FillTemplateAgrees ==
    (pc = "idle" /\ result # NoResult) =>
       result = fill_template(schema, name_converters(definition, schema), args0)

ALL == S("all")

(* yield_urls accepting any number of values. *)
arity_unchecked(values, sch) == TRUE

(* line 79 *)
arity_matches(values, sch) == Len(values) = Len(sch.args.v)

(* The values helper puts at position index, one after the other, with     *)
(* "all" taken as a value like any other.                                   *)
helper_values_literal(sch, global, arg, arg_name) == Ok(<<arg>>)

(* lines 89-95: the values helper puts at position index, one after the     *)
(* other: the allowed values when arg is "all", else arg alone.             *)
helper_values(sch, global, arg, arg_name) ==
    IF arg = ALL
    THEN LET lav == list_allowed_values_for(sch, global, arg_name)
         IN  IF lav.ok THEN Ok([i \in 1..Len(lav.value.v) |-> lav.value.v[i].v]) ELSE lav
    ELSE Ok(<<arg>>)

(* line 85 *)
yielded_url(sch, url) == <<sch.tool_name, "/">> \o url

DelVar(f, k) == [x \in (DOMAIN f) \ {k} |-> f[x]]


(* Schemas with allowed values of their own: a list that takes the place of *)
(* the global one, and an empty list.                                       *)
DocAllowed ==
    << <<"tool", <<
          <<"local", <<
              <<S("args"), List(<<Str(S("host")), Str(S("bits"))>>)>>,
              <<S("allowed_values"),
                Dict(<< <<S("host"), List(<<Str(S("linux")), Str(S("mac"))>>)>> >>)>>,
              <<K("host", "arch"), Dict(<< <<S("linux"), Str(S("l"))>>,
                                          <<S("mac"), Str(S("m"))>> >>)>>,
              <<S("url_template"), Str(P("arch") \o S("-") \o P("bits"))>> >> >>,
          <<"empty", <<
              <<S("args"), List(<<Str(S("host")), Str(S("file_ext"))>>)>>,
              <<S("allowed_values"), Dict(<< <<S("file_ext"), List(<<>>)>> >>)>>,
              <<S("url_template"), Str(P("host") \o S(".") \o P("file_ext"))>> >> >> >> >> >>

UrlDocuments == {DocFixture, DocAllowed}

(* The longest list of values given to yield_urls. *)
MaxValues == 3

UrlValueChoices == {ALL, S("linux"), V126, B64}

AllowedKeys == {S("host"), S("bits"), S("file_ext"), S("semver")}

MsgWrongNumber == S("Wrong number of arguments!")

(* A RepoModel loaded from a document, and one schema taken out of it. *)
InitUrls ==
    /\ \E doc \in UrlDocuments, tool_name \in {"qtdesignstudio", "qt-installer-framework", "tool"},
          name \in {"default", "alt", "binary", "local", "empty"} :
          LET r == get_schema(doc, tool_name, name)
          IN  /\ r.ret.ok
              /\ document = doc
              /\ definition = r.definition
              /\ schema = r.ret.value
    /\ last = None
    /\ pc = "idle"
    /\ heap = [a |-> EmptyVars, v |-> EmptyVars]
    /\ variables_ref = "v"
    /\ semver = Unbound
    /\ idx = 0
    /\ frame = None
    /\ translation = None
    /\ path = <<>>
    /\ args0 = EmptyVars
    /\ result = NoResult
    /\ prev = NoPrev
    /\ ALLOWED_VALUES = GlobalAllowedValues
    /\ allowed = None
    /\ gen = None
    /\ fetch = None
    /\ call = None

(* schema.list_allowed_values_for(key) *)
ListAllowedValuesFor ==
    /\ \E key \in AllowedKeys :
          allowed' = [key |-> key, ret |-> list_allowed_values_for(schema, ALLOWED_VALUES, key)]
    /\ UNCHANGED <<repoVars, ALLOWED_VALUES, gen, metaVars>>

GenEnded == IF gen = None THEN TRUE ELSE gen.status \in {"done", "raised"}

(* gen = schema.yield_urls(values): nothing of the body runs yet.  The      *)
(* caller exhausts one generator before it makes the next.                  *)
YieldUrls ==
    /\ GenEnded
    /\ \E n \in 0..MaxValues :
          \E values \in [1..n -> UrlValueChoices] :
             gen' = [status |-> "created", values |-> values, stack |-> <<>>,
                     args_dict |-> EmptyVars, yielded |-> <<>>, exc |-> NoResult]
    /\ UNCHANGED <<repoVars, ALLOWED_VALUES, allowed, metaVars>>

GenRaise(exc) == [gen EXCEPT !.status = "raised", !.exc = exc]

GenPop(g) ==
    LET stack == SubSeq(g.stack, 1, Len(g.stack) - 1)
    IN  [g EXCEPT !.stack = stack, !.status = IF stack = <<>> THEN "done" ELSE "running"]

(* The first next(gen): lines 79-80 and 99. *)
GenStart ==
    /\ gen # None
    /\ gen.status = "created"
    /\ gen' = IF arity_matches(gen.values, schema)
              THEN [gen EXCEPT !.status = "running",
                               !.stack = <<[kind |-> "call", index |-> 0]>>]
              ELSE GenRaise(Raise("CliInputError", MsgWrongNumber))
    /\ UNCHANGED <<repoVars, ALLOWED_VALUES, allowed, metaVars>>

GenTop == gen.stack[Len(gen.stack)]

(* helper(args_dict, index) is entered: lines 84-89 and 94. *)
Helper ==
    /\ gen # None
    /\ gen.status = "running"
    /\ GenTop.kind = "call"
    /\ LET index == GenTop.index
       IN  IF index = Len(gen.values)
           THEN LET r == fill_template(schema, name_converters(definition, schema),
                                       gen.args_dict)
                IN  gen' = IF r.ok
                           THEN GenPop([gen EXCEPT !.yielded =
                                           Append(@, yielded_url(schema, r.value))])
                           ELSE GenRaise(r)
           ELSE IF index + 1 > Len(schema.args.v)
           THEN gen' = GenRaise(Raise("IndexError", S("args")))
           ELSE LET arg      == gen.values[index + 1]
                    arg_name == schema.args.v[index + 1].v
                    hv       == helper_values(schema, ALLOWED_VALUES, arg, arg_name)
                IN  gen' = IF hv.ok
                           THEN [gen EXCEPT !.stack[Len(gen.stack)] =
                                    [kind |-> "loop", index |-> index, name |-> arg_name,
                                     list |-> hv.value, pos |-> 0]]
                           ELSE GenRaise(hv)
    /\ UNCHANGED <<repoVars, ALLOWED_VALUES, allowed, metaVars>>

(* The next value of the loop of lines 90-92 (or the one value of lines     *)
(* 95-96), and after the last one the pop of line 93 (or 97).               *)
HelperLoop ==
    /\ gen # None
    /\ gen.status = "running"
    /\ GenTop.kind = "loop"
    /\ LET top == GenTop
       IN  IF top.pos < Len(top.list)
           THEN gen' = [gen EXCEPT
                          !.args_dict = SetVar(@, top.name, top.list[top.pos + 1]),
                          !.stack = Append([@ EXCEPT ![Len(gen.stack)].pos = top.pos + 1],
                                           [kind |-> "call", index |-> top.index + 1])]
           ELSE IF top.name \in DOMAIN gen.args_dict
           THEN gen' = GenPop([gen EXCEPT !.args_dict = DelVar(@, top.name)])
           ELSE gen' = GenRaise(Raise("KeyError", top.name))
    /\ UNCHANGED <<repoVars, ALLOWED_VALUES, allowed, metaVars>>

NextUrls ==
    \/ ListAllowedValuesFor
    \/ YieldUrls
    \/ GenStart
    \/ Helper
    \/ HelperLoop

SpecUrls == InitUrls /\ [][NextUrls]_vars


----------------------------------------------------------------------------
(* Properties of list_allowed_values_for and yield_urls *)

(* The allowed values the loaded variant declares. *)
LoadedAllowedValues ==
    IF DictHas(LoadedVariant, S("allowed_values"))
    THEN DictGet(LoadedVariant, S("allowed_values")).v
    ELSE <<>>

(* The allowed values of a key by the rule of the specification: the        *)
(* schema's own list, else the global default, else none (<<>> in a set).   *)
AllowedListOf(key) ==
    IF DictHas(LoadedAllowedValues, key) THEN {DictGet(LoadedAllowedValues, key)}
    ELSE IF key = S("host")
    THEN {List(<<Str(S("windows")), Str(S("linux")), Str(S("mac"))>>)}
    ELSE IF key = S("bits") THEN {List(<<Str(<<"6", "4">>), Str(<<"3", "2">>)>>)}
    ELSE {}

(* C11: list_allowed_values_for(key) returns the schema's own list when the *)
(* schema declares one for key, else the global default list (host:         *)
(* windows, linux, mac; bits: 64, 32), and fails with the "not tracked"     *)
(* failure when key is in neither; the global table never changes.          *)
C11_AllowedValues ==
    /\ allowed # None =>
          IF AllowedListOf(allowed.key) # {}
          THEN allowed.ret.ok /\ allowed.ret.value \in AllowedListOf(allowed.key)
          ELSE allowed.ret = Raise("KeyError", MsgNotTracked(allowed.key))
    /\ ALLOWED_VALUES = GlobalAllowedValues

C11_Witness ==
    /\ allowed # None
    /\ schema.schema_name = "local"
    /\ allowed.key = S("host")
    /\ allowed.ret = Ok(List(<<Str(S("linux")), Str(S("mac"))>>))

(* The cartesian product of a sequence of lists, the last list varying      *)
(* fastest.                                                                 *)
RECURSIVE Product(_)
Product(lists) ==
    IF lists = <<>> THEN << <<>> >>
    ELSE LET rest == Product(Tail(lists))
         IN  Concat([i \in 1..Len(Head(lists)) |->
                        [j \in 1..Len(rest) |-> <<Head(lists)[i]>> \o rest[j]]])

RECURSIVE ProductOfLengths(_)
ProductOfLengths(lists) ==
    IF lists = <<>> THEN 1 ELSE Len(Head(lists)) * ProductOfLengths(Tail(lists))

ArgName(i) == schema.args.v[i].v

(* The generator has started, was given as many values as the schema has    *)
(* args, and every "all" stands at an argument with allowed values.         *)
GenWellFormed ==
    /\ gen # None
    /\ gen.status # "created"
    /\ Len(gen.values) = Len(schema.args.v)
    /\ \A i \in 1..Len(gen.values) : gen.values[i] = ALL => AllowedListOf(ArgName(i)) # {}

(* The values each position runs through. *)
GenLists ==
    [i \in 1..Len(gen.values) |->
        IF gen.values[i] = ALL
        THEN LET l == CHOOSE x \in AllowedListOf(ArgName(i)) : TRUE
             IN  [n \in 1..Len(l.v) |-> l.v[n].v]
        ELSE <<gen.values[i]>>]

(* What fill_template gives for one combination of values. *)
GenFill(combo) ==
    fill_template(schema, name_converters(definition, schema),
                  [k \in {ArgName(i) : i \in 1..Len(combo)} |->
                      combo[CHOOSE i \in 1..Len(combo) : ArgName(i) = k]])

(* C12: yield_urls runs through the cartesian product over the "all"        *)
(* positions, each expanded to its allowed values in list order, the last   *)
(* argument varying fastest, and yields "<tool_name>/<fill_template(...)>"  *)
(* for each combination in turn; a generator that ends has yielded as many  *)
(* URLs as the product of the numbers of values, unless fill_template       *)
(* failed for the combination after the last one yielded.                   *)
C12_CartesianProduct ==
    GenWellFormed =>
       LET combos == Product(GenLists)
           n      == Len(gen.yielded)
       IN  /\ Len(combos) = ProductOfLengths(GenLists)
           /\ n <= Len(combos)
           /\ \A k \in 1..n :
                 /\ GenFill(combos[k]).ok
                 /\ gen.yielded[k] = <<schema.tool_name, "/">> \o GenFill(combos[k]).value
           /\ gen.status = "done" => n = Len(combos)
           /\ (gen.status = "raised" /\ n < Len(combos)) =>
                 (~GenFill(combos[n + 1]).ok /\ gen.exc = GenFill(combos[n + 1]))

C12_Witness ==
    /\ GenWellFormed
    /\ schema.schema_name = "binary"
    /\ gen.status = "done"
    /\ gen.values = <<V126, ALL, ALL>>
    /\ Len(gen.yielded) = 6
    /\ gen.yielded[2] = <<"qt-installer-framework", "/">>
                           \o V126 \o S("/QtInstallerFramework-") \o S("win32") \o S(".zip")

(* C13: a yield_urls given a number of values other than the number of      *)
(* args of the schema fails with CliInputError("Wrong number of             *)
(* arguments!") when it is first resumed, and yields no URL.                *)
C13_WrongNumberOfArguments ==
    (gen # None /\ gen.status # "created" /\ Len(gen.values) # Len(schema.args.v)) =>
       /\ gen.status = "raised"
       /\ gen.exc = Raise("CliInputError", MsgWrongNumber)
       /\ gen.yielded = <<>>

C13_Witness ==
    /\ gen # None
    /\ schema.schema_name = "alt"
    /\ Len(gen.values) = 3
    /\ gen.status = "raised"
    /\ gen.exc = Raise("CliInputError", MsgWrongNumber)


----------------------------------------------------------------------------
(* MetadataFactory.fetch_http: one request to the primary base URL, then,   *)
(* if that fails, one request to a fallback base URL.                       *)

(* Settings.baseurl and Settings.trusted_mirrors. *)
baseurl == S("https://download.qt.io/")

trusted_mirrors == {S("https://mirror.a/"), S("https://mirror.b/"), S("https://mirror.c/")}

(* rest_of_url: the path below the base URL. *)
RestOfUrls == {S("qt5_5152/Updates.xml"), S("qt6_620/Updates.xml"), S("tools_ifw/Updates.xml")}

(* What a server may answer, and the failures getUrl may raise. *)
Contents == {S("<Updates/>"), S("<html/>")}

FetchErrors == {"ArchiveDownloadError", "ArchiveConnectionError"}

MsgFailure(url) == S("Failure to download ") \o url

base_urls_retry_twice(mirror) == <<baseurl, mirror, mirror>>

(* The base URLs tried, in order: the primary and one fallback. *)
base_urls(mirror) == <<baseurl, mirror>>

propagated_error_last(errors) == errors[Len(errors)]

(* The failure fetch_http ends with when every attempt failed: the one of   *)
(* the primary attempt.                                                     *)
propagated_error(errors) == errors[1]

InitFetch ==
    /\ Init
    /\ document = DocFixture

FetchEnded == IF fetch = None THEN TRUE ELSE fetch.pc \in {"returned", "raised"}

(* fetch_http(rest_of_url) is called. *)
FetchHttp ==
    /\ FetchEnded
    /\ \E rest \in RestOfUrls, mirror \in trusted_mirrors :
          fetch' = [pc |-> "request", rest_of_url |-> rest, base_urls |-> base_urls(mirror),
                    i |-> 1, requested |-> <<>>, errors |-> <<>>, ret |-> NoResult]
    /\ UNCHANGED <<repoVars, urlVars, call>>

FetchRequesting == IF fetch = None THEN FALSE ELSE fetch.pc = "request"

FetchUrl == fetch.base_urls[fetch.i] \o fetch.rest_of_url

(* getUrl(url) returns the content: fetch_http returns it. *)
GetUrlReturns ==
    /\ FetchRequesting
    /\ \E content \in Contents :
          fetch' = [fetch EXCEPT !.pc = "returned",
                                 !.requested = Append(@, [url |-> FetchUrl, out |-> Ok(content)]),
                                 !.ret = Ok(content)]
    /\ UNCHANGED <<repoVars, urlVars, call>>

(* getUrl(url) raises: the next base URL is tried, and after the last one   *)
(* fetch_http raises.                                                       *)
GetUrlRaises ==
    /\ FetchRequesting
    /\ \E exc \in FetchErrors :
          LET e      == Raise(exc, MsgFailure(FetchUrl))
              errors == Append(fetch.errors, e)
              log    == Append(fetch.requested, [url |-> FetchUrl, out |-> e])
          IN  IF fetch.i = Len(fetch.base_urls)
              THEN fetch' = [fetch EXCEPT !.pc = "raised", !.requested = log,
                                          !.errors = errors,
                                          !.ret = propagated_error(errors)]
              ELSE fetch' = [fetch EXCEPT !.i = @ + 1, !.requested = log,
                                          !.errors = errors]
    /\ UNCHANGED <<repoVars, urlVars, call>>

NextFetch == FetchHttp \/ GetUrlReturns \/ GetUrlRaises

SpecFetch == InitFetch /\ [][NextFetch]_vars

(* C14: fetch_http requests the primary first; it makes one request when    *)
(* the primary succeeds and two, to two different URLs, when the primary    *)
(* fails; the fallback is requested only after the primary failed, the      *)
(* content of a successful fallback is returned, and there is never a       *)
(* third request.                                                           *)
C14_PrimaryThenFallback ==
    fetch # None =>
       LET n == Len(fetch.requested)
       IN  /\ n <= 2
           /\ n >= 1 => fetch.requested[1].url = baseurl \o fetch.rest_of_url
           /\ n = 2 =>
                 /\ ~fetch.requested[1].out.ok
                 /\ fetch.requested[2].url # fetch.requested[1].url
                 /\ \E mirror \in trusted_mirrors :
                       fetch.requested[2].url = mirror \o fetch.rest_of_url
           /\ fetch.pc = "returned" =>
                 /\ n >= 1
                 /\ fetch.requested[n].out.ok
                 /\ fetch.ret = fetch.requested[n].out
                 /\ n = 1 <=> fetch.requested[1].out.ok
           /\ fetch.pc = "raised" =>
                 /\ n = 2
                 /\ ~fetch.requested[2].out.ok
           /\ (fetch.pc = "request" /\ n = 1) => ~fetch.requested[1].out.ok

C14_Witness ==
    /\ fetch # None
    /\ fetch.pc = "returned"
    /\ Len(fetch.requested) = 2
    /\ fetch.requested[1].out.exc = "ArchiveDownloadError"
    /\ fetch.ret = Ok(S("<Updates/>"))

(* C15: when both requests fail, fetch_http raises the kind of failure      *)
(* (download or connection) the primary request produced, whatever kind     *)
(* the fallback request produced.                                           *)
C15_PrimaryFailureKind ==
    (fetch # None /\ fetch.pc = "raised") =>
       /\ ~fetch.ret.ok
       /\ fetch.ret.exc \in FetchErrors
       /\ fetch.ret.exc = fetch.requested[1].out.exc

C15_Witness ==
    /\ fetch # None
    /\ fetch.pc = "raised"
    /\ fetch.requested[1].out.exc = "ArchiveConnectionError"
    /\ fetch.requested[2].out.exc = "ArchiveDownloadError"
    /\ fetch.ret.exc = "ArchiveConnectionError"


----------------------------------------------------------------------------
(* aqt.metadata: the functions of MetadataFactory, ArchiveId and Versions   *)
(* that compute a result from their arguments alone.                        *)

(* A MetadataFactory is made for one query: every behaviour is one call. *)
InitMeta ==
    /\ Init
    /\ document = DocFixture

(* Tool records: <<name, Version field>>. *)
ToolRecord(name, version) == <<S(name), version>>

ToolsData ==
    << ToolRecord("mytool.999", <<"9", ".", "9", ".", "9">>),
       ToolRecord("mytool.355", <<"3", ".", "5", ".", "5">>),
       ToolRecord("some_module", S("not_a_version")),
       ToolRecord("mytool.350", <<"3", ".", "5", ".", "0">>),
       ToolRecord("mytool.300", <<"3", ".", "0", ".", "0">>) >>

RECURSIVE SubSeqsOf(_)
SubSeqsOf(seq) ==
    IF seq = <<>> THEN {<<>>}
    ELSE LET rest == SubSeqsOf(Tail(seq))
         IN  rest \cup {<<Head(seq)>> \o r : r \in rest}

Reverse(seq) == [i \in 1..Len(seq) |-> seq[Len(seq) + 1 - i]]

ToolsDataInputs == SubSeqsOf(ToolsData) \cup SubSeqsOf(Reverse(ToolsData))

SimpleSpecInputs ==
    { <<"*">>, <<">", "3", ".", "5">>, <<"3", ".", "5", ".", "5">>, <<"<", "3", ".", "5">>,
      <<"<=", "3", ".", "5">>, <<"<=", "3", ".", "5", ".", "0">>, <<">", "1", "0">> }

(* The records with a version that parses and lies in the range. *)
tools_versions(all_tools_data, simple_spec) ==
    SelectSeq(all_tools_data,
              LAMBDA r : IF Version(r[2]).ok
                         THEN SpecContains(simple_spec, Version(r[2]).value)
                         ELSE FALSE)

choose_first_version_in_spec(all_tools_data, simple_spec) ==
    LET c == tools_versions(all_tools_data, simple_spec)
    IN  IF c = <<>> THEN Ok(None) ELSE Ok(c[1])

(* choose_highest_version_in_spec: the first of the records of the highest  *)
(* version in the range, None when there is none.                           *)
choose_highest_version_in_spec(all_tools_data, simple_spec) ==
    LET c == tools_versions(all_tools_data, simple_spec)
        v(i) == Version(c[i][2]).value
    IN  IF c = <<>> THEN Ok(None)
        ELSE Ok(c[CHOOSE i \in 1..Len(c) :
                     /\ \A j \in 1..Len(c) : ~VersionLess(v(i), v(j))
                     /\ \A j \in 1..(i - 1) : VersionLess(v(j), v(i))])

ChooseHighestVersionInSpec ==
    /\ call = None
    /\ \E data \in ToolsDataInputs, k \in SimpleSpecInputs :
          call' = [op |-> "choose_highest_version_in_spec", data |-> data, spec |-> k,
                   ret |-> choose_highest_version_in_spec(data, SimpleSpec(k).value)]
    /\ UNCHANGED <<repoVars, urlVars, fetch>>

(* ArchiveId(category, host, target, extension); extension "" is none. *)
ArchiveId(category, host, target, extension) ==
    [category |-> category, host |-> host, target |-> target, extension |-> extension]

(* The filters of a MetadataFactory; None is a filter that is not set. *)
MetaInputs ==
    [archive_id : {ArchiveId(c, "mac", "desktop", e) : c \in {"qt5", "tools"}, e \in {"", "wasm"}},
     filter_minor : {None, Num(0), Num(12)},
     tool_name : {None, Str(S("ifw"))},
     architectures_ver : {None, Str(V126)},
     modules_ver : {None, Str(V126)},
     extensions_ver : {None, Str(V126)}]

base_cmd(archive_id) ==
    <<"aqt list ", archive_id.category, " ", archive_id.host, " ", archive_id.target>>

MsgListExtensions(meta) ==
    S("Please use '") \o base_cmd(meta.archive_id)
       \o S(" --extensions <QT_VERSION>' to list valid extensions.")

MsgCheckMinor(meta) ==
    S("Please use '") \o base_cmd(meta.archive_id) \o S("' to check that versions of ")
       \o S(meta.archive_id.category) \o S(" exist with the minor version '")
       \o NumStr(meta.filter_minor.v) \o S("'.")

MsgCheckTools(meta) ==
    S("Please use '") \o base_cmd(meta.archive_id) \o S("' to check what tools are available.")

MsgShowVersions(meta) ==
    S("Please use '") \o base_cmd(meta.archive_id) \o S("' to show versions of Qt available.")

has_version_filter(meta) ==
    \/ meta.architectures_ver # None
    \/ meta.modules_ver # None
    \/ meta.extensions_ver # None

suggested_follow_up_minor_first(meta) ==
    (IF meta.filter_minor # None THEN <<MsgCheckMinor(meta)>> ELSE <<>>)
       \o (IF meta.archive_id.extension # "" THEN <<MsgListExtensions(meta)>> ELSE <<>>)
       \o (IF meta.tool_name # None THEN <<MsgCheckTools(meta)>> ELSE <<>>)
       \o (IF has_version_filter(meta) THEN <<MsgShowVersions(meta)>> ELSE <<>>)

(* suggested_follow_up(meta): one suggestion for each active filter. *)
suggested_follow_up(meta) ==
    (IF meta.archive_id.extension # "" THEN <<MsgListExtensions(meta)>> ELSE <<>>)
       \o (IF meta.filter_minor # None THEN <<MsgCheckMinor(meta)>> ELSE <<>>)
       \o (IF meta.tool_name # None THEN <<MsgCheckTools(meta)>> ELSE <<>>)
       \o (IF has_version_filter(meta) THEN <<MsgShowVersions(meta)>> ELSE <<>>)

SuggestedFollowUp ==
    /\ call = None
    /\ \E meta \in MetaInputs :
          call' = [op |-> "suggested_follow_up", meta |-> meta,
                   ret |-> suggested_follow_up(meta)]
    /\ UNCHANGED <<repoVars, urlVars, fetch>>

(* The versions a catalog page lists, ascending, each under its family. *)
CatalogPage ==
    << <<5, 12, 11>>, <<5, 14, 0>>, <<5, 15, 2>>, <<6, 1, 0>>, <<6, 2, 0>> >>

CatalogInputs == SubSeqsOf(CatalogPage)

VersionTokens ==
    { S("latest"), S("not a version"),
      <<"5", ".", "1", "2", ".", "4", "2">>, <<"6", ".", "1", "2", ".", "4", "2">>,
      <<"5", ".", "1", "5", ".", "2">> }

ToVersionMetas ==
    [archive_id : {ArchiveId(c, "mac", "desktop", e) : c \in {"qt5", "qt6"}, e \in {"", "wasm"}},
     filter_minor : {None, Num(0), Num(2), Num(15)}]

(* The major number of a family: 5 for qt5, 6 for qt6. *)
family_major(category) == IF category = "qt5" THEN 5 ELSE 6

(* describe_filters: "<category>/<host>/<target>[/<extension>]", then the   *)
(* minor version when that filter is set.                                   *)
describe_filters(meta) ==
    <<meta.archive_id.category, "/", meta.archive_id.host, "/", meta.archive_id.target>>
       \o (IF meta.archive_id.extension # "" THEN <<"/", meta.archive_id.extension>> ELSE <<>>)
       \o (IF meta.filter_minor # None
           THEN S(" with minor version ") \o NumStr(meta.filter_minor.v) ELSE <<>>)

(* The versions of the family on the page that pass the minor filter. *)
fetch_versions(meta, page) ==
    SelectSeq(page,
              LAMBDA v : /\ v[1] = family_major(meta.archive_id.category)
                         /\ IF meta.filter_minor = None THEN TRUE
                            ELSE v[2] = meta.filter_minor.v)

MsgNoLatest(meta) ==
    S("There is no latest version of Qt with the criteria '") \o describe_filters(meta) \o S("'")

MsgMajorMismatch(meta, qt_ver) ==
    S("Major version mismatch between ") \o S(meta.archive_id.category) \o S(" and ") \o qt_ver

MsgInvalidVersion(qt_ver) == S("Invalid version string: '") \o qt_ver \o S("'")

to_version_any_major(meta, page, qt_ver) ==
    IF qt_ver = S("latest")
    THEN LET versions == fetch_versions(meta, page)
         IN  IF versions = <<>> THEN Raise("CliInputError", MsgNoLatest(meta))
             ELSE Ok(versions[Len(versions)])
    ELSE IF ~Version(qt_ver).ok THEN Raise("CliInputError", MsgInvalidVersion(qt_ver))
    ELSE Ok(Version(qt_ver).value)

(* MetadataFactory._to_version(qt_ver) *)
to_version(meta, page, qt_ver) ==
    IF qt_ver = S("latest")
    THEN LET versions == fetch_versions(meta, page)
         IN  IF versions = <<>> THEN Raise("CliInputError", MsgNoLatest(meta))
             ELSE Ok(versions[Len(versions)])
    ELSE IF ~Version(qt_ver).ok THEN Raise("CliInputError", MsgInvalidVersion(qt_ver))
    ELSE IF Version(qt_ver).value[1] # family_major(meta.archive_id.category)
    THEN Raise("CliInputError", MsgMajorMismatch(meta, qt_ver))
    ELSE Ok(Version(qt_ver).value)

ToVersion ==
    /\ call = None
    /\ \E meta \in ToVersionMetas, page \in CatalogInputs, qt_ver \in VersionTokens :
          call' = [op |-> "_to_version", meta |-> meta, page |-> page, qt_ver |-> qt_ver,
                   ret |-> to_version(meta, page, qt_ver)]
    /\ UNCHANGED <<repoVars, urlVars, fetch>>

(* ArchiveId.EXTENSIONS_REQUIRED_ANDROID_QT6 *)
EXTENSIONS_REQUIRED_ANDROID_QT6 == {"x86_64", "x86", "armv7", "arm64_v8a"}

(* The flag is written between backquotes in the message. *)
MsgQt6AndroidRequiresExt ==
    <<"Qt 6 for Android requires one of the following extensions: ",
      "{EXTENSIONS_REQUIRED_ANDROID_QT6}",
      ". Please add your extension using the ", "--extension", " flag.">>

MsgNoArm64 == <<"The extension '", "arm64_v8a", "' is only valid for Qt 6 for Android">>

MsgNoWasm == <<"The extension '", "wasm", "' is only available in Qt 5.13 to 5.15 on desktop.">>

(* The selections validated: the family is the one of the version. *)
ValidationInputs ==
    { [archive_id |-> ArchiveId(IF v[1] = 5 THEN "qt5" ELSE "qt6", "windows", t, e),
       qt_ver |-> v] :
          v \in { <<5, 12, 11>>, <<5, 13, 0>>, <<5, 14, 0>>, <<5, 15, 2>>, <<6, 2, 0>> },
          t \in {"desktop", "android"},
          e \in {"", "wasm", "arm64_v8a", "armv7"} }

(* Qt 5.13 to 5.15 *)
wasm_versions(qt_ver) == qt_ver[1] = 5 /\ qt_ver[2] >= 13 /\ qt_ver[2] <= 15

validate_extension_wasm_first(archive_id, qt_ver) ==
    IF /\ archive_id.extension = "wasm"
       /\ (archive_id.target # "desktop" \/ ~wasm_versions(qt_ver))
    THEN Raise("CliInputError", MsgNoWasm)
    ELSE IF /\ archive_id.category = "qt6"
            /\ archive_id.target = "android"
            /\ archive_id.extension \notin EXTENSIONS_REQUIRED_ANDROID_QT6
    THEN Raise("CliInputError", MsgQt6AndroidRequiresExt)
    ELSE IF /\ archive_id.extension = "arm64_v8a"
            /\ ~(archive_id.category = "qt6" /\ archive_id.target = "android")
    THEN Raise("CliInputError", MsgNoArm64)
    ELSE Ok(None)

(* The extension rules of a selection, in the order they are applied: Qt 6  *)
(* for Android needs an architecture extension, arm64_v8a goes with Qt 6    *)
(* for Android only, wasm with desktop Qt 5.13 to 5.15 only.                *)
validate_extension(archive_id, qt_ver) ==
    IF /\ archive_id.category = "qt6"
       /\ archive_id.target = "android"
       /\ archive_id.extension \notin EXTENSIONS_REQUIRED_ANDROID_QT6
    THEN Raise("CliInputError", MsgQt6AndroidRequiresExt)
    ELSE IF /\ archive_id.extension = "arm64_v8a"
            /\ ~(archive_id.category = "qt6" /\ archive_id.target = "android")
    THEN Raise("CliInputError", MsgNoArm64)
    ELSE IF /\ archive_id.extension = "wasm"
            /\ (archive_id.target # "desktop" \/ ~wasm_versions(qt_ver))
    THEN Raise("CliInputError", MsgNoWasm)
    ELSE Ok(None)

ValidateExtension ==
    /\ call = None
    /\ \E in \in ValidationInputs :
          call' = [op |-> "validate_extension", archive_id |-> in.archive_id,
                   qt_ver |-> in.qt_ver,
                   ret |-> validate_extension(in.archive_id, in.qt_ver)]
    /\ UNCHANGED <<repoVars, urlVars, fetch>>

(* Ascending sequences of versions. *)
AscendingVersions ==
    << <<1, 1, 1>>, <<1, 1, 2>>, <<1, 2, 1>>, <<1, 2, 2>>, <<2, 2, 0>>, <<2, 3, 1>> >>

VersionsInputs == SubSeqsOf(AscendingVersions)

(* itertools.groupby(versions, key=minor): the runs of versions of one      *)
(* minor number, in order.                                                  *)
RECURSIVE groupby_minor(_)
groupby_minor(versions) ==
    IF versions = <<>> THEN <<>>
    ELSE LET rest == groupby_minor(Tail(versions))
         IN  IF rest # <<>> /\ Head(rest)[1][2] = Head(versions)[2]
             THEN <<<<Head(versions)>> \o Head(rest)>> \o Tail(rest)
             ELSE <<<<Head(versions)>>>> \o rest

(* Versions.flattened() *)
flattened(rows) == Concat(rows)

(* Versions.__bool__() *)
versions_bool(rows) == IF Len(rows) > 0 THEN Len(rows[1]) > 0 ELSE FALSE

VersionValue(v) == [t |-> "version", v |-> v]

latest_of_first_row(rows) ==
    IF ~versions_bool(rows) THEN None ELSE VersionValue(rows[1][Len(rows[1])])

(* Versions.latest() *)
latest(rows) ==
    IF ~versions_bool(rows) THEN None
    ELSE VersionValue(rows[Len(rows)][Len(rows[Len(rows)])])

VersionsCall ==
    /\ call = None
    /\ \E versions \in VersionsInputs :
          LET rows == groupby_minor(versions)
          IN  call' = [op |-> "Versions", versions |-> versions, rows |-> rows,
                       flattened |-> flattened(rows), latest |-> latest(rows),
                       bool |-> versions_bool(rows)]
    /\ UNCHANGED <<repoVars, urlVars, fetch>>

NextMeta ==
    \/ ChooseHighestVersionInSpec
    \/ SuggestedFollowUp
    \/ ToVersion
    \/ ValidateExtension
    \/ VersionsCall

SpecMeta == InitMeta /\ [][NextMeta]_vars

CallIs(op) == IF call = None THEN FALSE ELSE call.op = op

(* C16: choose_highest_version_in_spec returns a record whose version       *)
(* parses, lies in the range and is not below the version of any other such *)
(* record; it returns None when no record has such a version; it never      *)
(* fails, whether a version is unparsable or nothing matches.               *)
C16_HighestVersionInSpec ==
    CallIs("choose_highest_version_in_spec") =>
       LET data == call.data
           spec == SimpleSpec(call.spec).value
           parses(i) == Version(data[i][2]).ok
           qualifying == {i \in 1..Len(data) :
                             IF parses(i) THEN SpecContains(spec, Version(data[i][2]).value)
                             ELSE FALSE}
       IN  /\ call.ret.ok
           /\ qualifying = {} => call.ret.value = None
           /\ qualifying # {} =>
                 \E i \in qualifying :
                    /\ call.ret.value = data[i]
                    /\ \A j \in qualifying :
                          ~VersionLess(Version(data[i][2]).value, Version(data[j][2]).value)

C16_Witness ==
    /\ CallIs("choose_highest_version_in_spec")
    /\ call.data = Reverse(ToolsData)
    /\ call.spec = <<"<=", "3", ".", "5">>
    /\ call.ret = Ok(ToolRecord("mytool.355", <<"3", ".", "5", ".", "5">>))

(* The kind of a suggestion, read off its text: 1 extension, 2 minor        *)
(* version, 3 tool name, 4 version.                                         *)
SuggestionKind(msg) ==
    LET has(tok) == \E i \in 1..Len(msg) : msg[i] = tok
    IN  IF has(" --extensions <QT_VERSION>' to list valid extensions.") THEN 1
        ELSE IF has(" exist with the minor version '") THEN 2
        ELSE IF has("' to check what tools are available.") THEN 3
        ELSE IF has("' to show versions of Qt available.") THEN 4
        ELSE 0

(* The kinds of the filters that are active in meta. *)
ActiveFilters(meta) ==
    (IF meta.archive_id.extension # "" THEN {1} ELSE {})
       \cup (IF meta.filter_minor # None THEN {2} ELSE {})
       \cup (IF meta.tool_name # None THEN {3} ELSE {})
       \cup (IF meta.architectures_ver # None \/ meta.modules_ver # None
                   \/ meta.extensions_ver # None THEN {4} ELSE {})

(* C17: suggested_follow_up gives one suggestion for each active filter and *)
(* no other, in the order extension, minor version, tool name, version, so  *)
(* none twice and none at all without an active filter; two factories with  *)
(* the same archive, the same minor filter and the same active filters get  *)
(* the same suggestions.                                                    *)
C17_SuggestionsInOrder ==
    CallIs("suggested_follow_up") =>
       LET ret == call.ret
       IN  /\ {SuggestionKind(ret[i]) : i \in 1..Len(ret)} = ActiveFilters(call.meta)
           /\ \A i, j \in 1..Len(ret) :
                 i < j => SuggestionKind(ret[i]) < SuggestionKind(ret[j])
           /\ ActiveFilters(call.meta) = {} => ret = <<>>
           /\ \A other \in MetaInputs :
                 (/\ other.archive_id = call.meta.archive_id
                  /\ other.filter_minor = call.meta.filter_minor
                  /\ ActiveFilters(other) = ActiveFilters(call.meta))
                    => suggested_follow_up(other) = ret

C17_Witness ==
    /\ CallIs("suggested_follow_up")
    /\ call.meta.archive_id = ArchiveId("qt5", "mac", "desktop", "wasm")
    /\ call.meta.filter_minor = Num(0)
    /\ call.meta.modules_ver # None
    /\ call.meta.extensions_ver # None
    /\ call.ret = <<MsgListExtensions(call.meta), MsgCheckMinor(call.meta),
                    MsgShowVersions(call.meta)>>

(* The versions of the page in the family of the call that the minor filter *)
(* of the call lets through.                                                *)
FilteredCatalog ==
    {call.page[i] : i \in {n \in 1..Len(call.page) :
        /\ call.page[n][1] = family_major(call.meta.archive_id.category)
        /\ call.meta.filter_minor # None => call.page[n][2] = call.meta.filter_minor.v}}

(* C18: _to_version returns only versions of the family's major number; for *)
(* "latest" it returns the highest version of the filtered catalog, and     *)
(* fails with a CliInputError naming the filters when that catalog is       *)
(* empty; any other token fails with "Invalid version string: '<token>'"    *)
(* when it does not parse, with "Major version mismatch between <family>    *)
(* and <token>" when its major number is another, and is returned parsed    *)
(* otherwise.                                                               *)
C18_ToVersion ==
    CallIs("_to_version") =>
       LET ret    == call.ret
           family == call.meta.archive_id.category
           parsed == Version(call.qt_ver)
       IN  /\ ret.ok => ret.value[1] = family_major(family)
           /\ ~ret.ok => ret.exc = "CliInputError"
           /\ IF call.qt_ver = <<"latest">>
              THEN IF FilteredCatalog = {}
                   THEN ret = Raise("CliInputError",
                                    <<"There is no latest version of Qt with the criteria '">>
                                       \o describe_filters(call.meta) \o <<"'">>)
                   ELSE /\ ret.ok
                        /\ ret.value \in FilteredCatalog
                        /\ \A w \in FilteredCatalog : ~VersionLess(ret.value, w)
              ELSE IF ~parsed.ok
              THEN ret = Raise("CliInputError",
                               <<"Invalid version string: '">> \o call.qt_ver \o <<"'">>)
              ELSE IF parsed.value[1] # family_major(family)
              THEN ret = Raise("CliInputError",
                               <<"Major version mismatch between ", family, " and ">>
                                  \o call.qt_ver)
              ELSE ret = Ok(parsed.value)

C18_Witness ==
    /\ CallIs("_to_version")
    /\ call.meta.archive_id = ArchiveId("qt5", "mac", "desktop", "")
    /\ call.qt_ver = <<"6", ".", "1", "2", ".", "4", "2">>
    /\ call.ret = Raise("CliInputError",
                        <<"Major version mismatch between ", "qt5", " and ",
                          "6", ".", "1", "2", ".", "4", "2">>)

Qt6Android == call.archive_id.category = "qt6" /\ call.archive_id.target = "android"

(* C19: a selection of Qt 6 for Android with an extension that is not one   *)
(* of the required architectures is rejected with the message that names    *)
(* them, also when the extension is wasm; arm64_v8a anywhere but Qt 6 for   *)
(* Android is rejected as "only valid for Qt 6 for Android"; wasm with      *)
(* another target than desktop or a version outside Qt 5.13 to 5.15 is      *)
(* rejected as "only available in Qt 5.13 to 5.15 on desktop".              *)
C19_InvalidExtensions ==
    CallIs("validate_extension") =>
       LET ext == call.archive_id.extension
           v   == call.qt_ver
           inWindow == ~VersionLess(v, <<5, 13, 0>>) /\ VersionLess(v, <<5, 16, 0>>)
       IN  /\ (Qt6Android /\ ext \notin {"x86_64", "x86", "armv7", "arm64_v8a"}) =>
                 /\ ~call.ret.ok
                 /\ call.ret.exc = "CliInputError"
                 /\ call.ret.msg[1] = "Qt 6 for Android requires one of the following extensions: "
           /\ (ext = "arm64_v8a" /\ ~Qt6Android) =>
                 call.ret = Raise("CliInputError",
                    <<"The extension '", "arm64_v8a", "' is only valid for Qt 6 for Android">>)
           /\ (ext = "wasm" /\ ~Qt6Android
                  /\ (call.archive_id.target # "desktop" \/ ~inWindow)) =>
                 call.ret = Raise("CliInputError",
                    <<"The extension '", "wasm",
                      "' is only available in Qt 5.13 to 5.15 on desktop.">>)

C19_Witness ==
    /\ CallIs("validate_extension")
    /\ call.archive_id = ArchiveId("qt6", "windows", "android", "wasm")
    /\ call.qt_ver = <<6, 2, 0>>
    /\ call.ret = Raise("CliInputError", MsgQt6AndroidRequiresExt)

(* C20: for a Versions built from an ascending sequence of versions,        *)
(* flattened() is that sequence, latest() is its maximum, the last version  *)
(* of the last row, and None when the sequence is empty, and the Versions   *)
(* is truthy exactly when the sequence is not empty.                        *)
C20_VersionsGroup ==
    CallIs("Versions") =>
       LET versions == call.versions
           n        == Len(versions)
       IN  /\ call.flattened = versions
           /\ call.bool <=> n > 0
           /\ n = 0 => call.latest = None
           /\ n > 0 =>
                 /\ call.latest = [t |-> "version", v |-> versions[n]]
                 /\ \A i \in 1..n : ~VersionLess(call.latest.v, versions[i])
                 /\ call.latest.v = call.rows[Len(call.rows)][Len(call.rows[Len(call.rows)])]

C20_Witness ==
    /\ CallIs("Versions")
    /\ call.versions = << <<1, 1, 1>>, <<1, 1, 2>>, <<1, 2, 1>>, <<1, 2, 2>> >>
    /\ call.rows = << << <<1, 1, 1>>, <<1, 1, 2>> >>, << <<1, 2, 1>>, <<1, 2, 2>> >> >>
    /\ call.latest = [t |-> "version", v |-> <<1, 2, 2>>]
    /\ call.bool


----------------------------------------------------------------------------
(* aqt/exceptions.py: AqtException and its formatting.                      *)

(* Texts an exception is made with. *)
ExcMessages == {S("Invalid version"), S("No package found")}

ExcSuggestions ==
    { S("Please use 'aqt list tools mac desktop' to check what tools are available."),
      S("Please use 'aqt list qt5 mac desktop' to show versions of Qt available."),
      <<"Consider using another 7z extraction tool", "\n", "  (see the documentation)">> }

MaxSuggestions == 3

RECURSIVE SeqsUpTo(_, _)
SeqsUpTo(set, n) ==
    IF n = 0 THEN {<<>>}
    ELSE LET shorter == SeqsUpTo(set, n - 1)
         IN  shorter \cup {Append(q, x) : q \in shorter, x \in set}

(* "=" * n *)
RECURSIVE Repeat(_, _)
Repeat(tok, n) == IF n = 0 THEN <<>> ELSE <<tok>> \o Repeat(tok, n - 1)

(* "\n".join(lines) *)
RECURSIVE JoinLines(_)
JoinLines(lines) ==
    IF lines = <<>> THEN <<>>
    ELSE IF Len(lines) = 1 THEN lines[1]
    ELSE lines[1] \o <<"\n">> \o JoinLines(Tail(lines))

(* AqtException.__init__: suggested_action is taken out of the keyword      *)
(* arguments, [] when it is not given; the other arguments go to Exception. *)
AqtException(args, kwargs) ==
    [args |-> args,
     suggested_action |-> IF "suggested_action" \in DOMAIN kwargs
                          THEN kwargs["suggested_action"] ELSE <<>>]

(* str() of an exception: nothing without arguments, the argument when      *)
(* there is one, the tuple of the arguments otherwise.                      *)
exception_str(args) ==
    IF Len(args) = 0 THEN <<>>
    ELSE IF Len(args) = 1 THEN args[1]
    ELSE <<"(">> \o
         Concat([i \in 1..Len(args) |->
                    (IF i > 1 THEN <<", ">> ELSE <<>>) \o <<"'">> \o args[i] \o <<"'">>])
         \o <<")">>

(* Exception.__format__(format_spec): str(self) for the empty format        *)
(* specification, a TypeError for any other.                                *)
base_format(exc, format_spec) ==
    IF format_spec = <<>> THEN Ok(exception_str(exc.args))
    ELSE Raise("TypeError", S("unsupported format string passed to AqtException.__format__"))

format_suggested_follow_up_no_prefix(suggested_action) ==
    (Repeat("=", 30) \o S("Suggested follow-up:") \o Repeat("=", 30) \o <<"\n">>)
       \o JoinLines(suggested_action)

(* AqtException._format_suggested_follow_up: lines 37-40 *)
format_suggested_follow_up(suggested_action) ==
    (Repeat("=", 30) \o S("Suggested follow-up:") \o Repeat("=", 30) \o <<"\n">>)
       \o JoinLines([i \in 1..Len(suggested_action) |-> <<"* ">> \o suggested_action[i]])

(* AqtException.__format__: lines 31-35 *)
exception_format(exc, format_spec) ==
    Bind(base_format(exc, format_spec),
         LAMBDA base_msg :
            IF ~base_msg.ok THEN base_msg
            ELSE IF exc.suggested_action = <<>> THEN base_msg
            ELSE Ok(base_msg.value \o <<"\n">>
                       \o format_suggested_follow_up(exc.suggested_action)))

InitExc ==
    /\ Init
    /\ document = DocFixture

(* An exception is made and formatted: one per behaviour. *)
FormatException ==
    /\ call = None
    /\ \E args \in SeqsUpTo(ExcMessages, 2), format_spec \in {<<>>, S("s")},
          given \in BOOLEAN, suggestions \in SeqsUpTo(ExcSuggestions, MaxSuggestions) :
          /\ (~given => suggestions = <<>>)
          /\ LET exc == AqtException(args, IF given
                                           THEN [k \in {"suggested_action"} |-> suggestions]
                                           ELSE <<>>)
             IN  call' = [op |-> "__format__", exc |-> exc, given |-> given,
                          format_spec |-> format_spec,
                          ret |-> exception_format(exc, format_spec)]
    /\ UNCHANGED <<repoVars, urlVars, fetch>>

NextExc == FormatException

SpecExc == InitExc /\ [][NextExc]_vars

(* C21: an AqtException formatted with the empty format specification gives *)
(* its message alone when it has no suggestions; otherwise the message, a   *)
(* newline, 30 "=", "Suggested follow-up:", 30 "=", then for each           *)
(* suggestion in the given order a newline, "* " and the suggestion.        *)
C21_FormatWithSuggestions ==
    (CallIs("__format__") /\ call.format_spec = <<>>) =>
       LET message == IF Len(call.exc.args) = 1 THEN call.exc.args[1]
                      ELSE exception_str(call.exc.args)
           sugg    == call.exc.suggested_action
           banner  == [i \in 1..61 |-> IF i = 31 THEN "Suggested follow-up:" ELSE "="]
           Block[i \in 0..Len(sugg)] ==
               IF i = 0 THEN <<>> ELSE Block[i - 1] \o <<"\n", "* ">> \o sugg[i]
       IN  /\ call.ret.ok
           /\ sugg = <<>> => call.ret.value = message
           /\ sugg # <<>> =>
                 call.ret.value = message \o <<"\n">> \o banner \o Block[Len(sugg)]

C21_Witness ==
    /\ CallIs("__format__")
    /\ call.format_spec = <<>>
    /\ call.exc.args = <<S("Invalid version")>>
    /\ Len(call.exc.suggested_action) = 2
    /\ call.ret.ok
    /\ Len(call.ret.value) = 1 + 1 + 61 + 2 + 1 + 2 + 1


----------------------------------------------------------------------------
(* ci/generate_combinations.py (and its copy aqt/generate_combinations.py): *)
(* the functions that compute a result from their arguments alone.          *)

(* ArchiveId.CATEGORIES, ArchiveId.HOSTS in sorted order and                *)
(* ArchiveId.TARGETS_FOR_HOST.                                              *)
CATEGORIES == <<"tools", "qt5", "qt6">>

SortedHosts == <<"linux", "mac", "windows">>

TARGETS_FOR_HOST ==
    [h \in {"linux", "mac", "windows"} |->
        IF h = "windows" THEN <<"android", "desktop", "winrt">>
        ELSE IF h = "mac" THEN <<"android", "desktop", "ios">>
        ELSE <<"android", "desktop">>]

(* sorted(hosts) *)
sorted_hosts(hosts) == SelectSeq(SortedHosts, LAMBDA h : h \in hosts)

iter_extensions_wasm_everywhere(add_extensions, cat, target) ==
    IF add_extensions /\ cat = "qt6" /\ target = "android"
    THEN <<"x86_64", "x86", "armv7", "arm64_v8a">>
    ELSE IF add_extensions /\ target = "desktop"
    THEN <<"wasm", "">>
    ELSE <<"">>

(* iter_extensions: lines 47-55 *)
iter_extensions(add_extensions, cat, target) ==
    IF add_extensions /\ cat = "qt6" /\ target = "android"
    THEN <<"x86_64", "x86", "armv7", "arm64_v8a">>
    ELSE IF add_extensions /\ cat = "qt5" /\ target = "desktop"
    THEN <<"wasm", "">>
    ELSE <<"">>

(* The ids of one category and host: lines 59-68. *)
ids_for_host(cat, host, targets, add_extensions) ==
    LET use_targets == IF targets = None THEN TARGETS_FOR_HOST[host] ELSE targets.v
    IN  Concat([t \in 1..Len(use_targets) |->
                   IF use_targets[t] = "winrt" /\ cat = "qt6" THEN <<>>
                   ELSE LET exts == iter_extensions(add_extensions, cat, use_targets[t])
                        IN  [e \in 1..Len(exts) |->
                                ArchiveId(cat, host, use_targets[t], exts[e])]])

(* iter_archive_ids, consumed to its end: lines 41-68. *)
iter_archive_ids(categories, hosts, targets, add_extensions) ==
    Concat([c \in 1..Len(categories) |->
              LET hs == sorted_hosts(hosts)
              IN  Concat([h \in 1..Len(hs) |->
                            ids_for_host(categories[c], hs[h], targets, add_extensions)])])

TargetsInputs ==
    {None, [v |-> <<"desktop">>], [v |-> <<"android", "winrt">>],
     [v |-> <<"winrt", "desktop", "android", "ios">>]}

InitCi ==
    /\ Init
    /\ document = DocFixture

IterArchiveIds ==
    /\ call = None
    /\ \E categories \in SubSeqsOf(CATEGORIES), hosts \in SUBSET {"linux", "mac", "windows"},
          targets \in TargetsInputs, add_extensions \in BOOLEAN :
          call' = [op |-> "iter_archive_ids", categories |-> categories, hosts |-> hosts,
                   targets |-> targets, add_extensions |-> add_extensions,
                   ret |-> iter_archive_ids(categories, hosts, targets, add_extensions)]
    /\ UNCHANGED <<repoVars, urlVars, fetch>>

(* The strings of the records, in the order Python compares them. *)
SortedStrings ==
    <<"android", "clang_64", "desktop", "gcc_64", "linux", "wasm_32", "windows">>

StrRank(str) == CHOOSE i \in 1..Len(SortedStrings) : SortedStrings[i] = str

ArchRecords ==
    [os_name : {"linux", "windows"}, target : {"android", "desktop"},
     arch : {"clang_64", "gcc_64", "wasm_32"}]

MaxRecords == 3

(* The loop of lines 152-156: the first record of each                      *)
(* (os_name, target, arch). *)
RECURSIVE first_of_each_hash(_)
first_of_each_hash(arch_records) ==
    IF arch_records = <<>> THEN <<>>
    ELSE Bind(first_of_each_hash(SubSeq(arch_records, 1, Len(arch_records) - 1)),
              LAMBDA all_records :
                 LET record == arch_records[Len(arch_records)]
                     _hash(r) == <<r.os_name, r.target, r.arch>>
                 IN  IF \E i \in 1..Len(all_records) : _hash(all_records[i]) = _hash(record)
                     THEN all_records
                     ELSE Append(all_records, record))

(* sorted(records, key=lambda d: d[sorting_key]): a stable sort. *)
RECURSIVE sorted_by(_, _)
sorted_by(records, sorting_key) ==
    IF records = <<>> THEN <<>>
    ELSE Bind(sorted_by(SubSeq(records, 1, Len(records) - 1), sorting_key),
              LAMBDA front :
                 LET d == records[Len(records)]
                     k == Cardinality({i \in 1..Len(front) :
                             StrRank(front[i][sorting_key]) <= StrRank(d[sorting_key])})
                 IN  SubSeq(front, 1, k) \o <<d>> \o SubSeq(front, k + 1, Len(front)))

sorting_keys_reversed == <<"os_name", "target", "arch">>

(* line 157 *)
sorting_keys == <<"arch", "target", "os_name">>

(* merge_records: lines 149-159 *)
merge_records(arch_records) ==
    Bind(first_of_each_hash(arch_records),
         LAMBDA all_records :
            Bind(sorted_by(all_records, sorting_keys[1]),
                 LAMBDA by1 :
                    Bind(sorted_by(by1, sorting_keys[2]),
                         LAMBDA by2 : sorted_by(by2, sorting_keys[3]))))

MergeRecords ==
    /\ call = None
    /\ \E arch_records \in SeqsUpTo(ArchRecords, MaxRecords) :
          call' = [op |-> "merge_records", arch_records |-> arch_records,
                   ret |-> merge_records(arch_records)]
    /\ UNCHANGED <<repoVars, urlVars, fetch>>

(* Entries of "qt" and "tools": dicts, as sequences of <<key, value>> in    *)
(* insertion order.  generate_combos makes them in the order os_name,       *)
(* target, arch; a file written with sorted keys gives them back in the     *)
(* order arch, os_name, target.                                             *)
QtEntry(os_name, target, arch) ==
    << <<"os_name", os_name>>, <<"target", target>>, <<"arch", arch>> >>

QtEntrySortedKeys(os_name, target, arch) ==
    << <<"arch", arch>>, <<"os_name", os_name>>, <<"target", target>> >>

QtLists ==
    { <<>>,
      <<QtEntry("linux", "desktop", "gcc_64")>>,
      <<QtEntry("linux", "desktop", "gcc_64"), QtEntry("windows", "android", "clang_64")>>,
      <<QtEntrySortedKeys("linux", "desktop", "gcc_64")>> }

ToolsLists ==
    { <<>>,
      << << <<"os_name", "linux">>, <<"target", "desktop">>, <<"tool_name", "tools_ifw">>,
            <<"arch", "qt.tools.ifw.41">> >> >> }

ModulesRow(qt_version, modules) == [qt_version |-> qt_version, modules |-> modules]

ModulesLists ==
    { <<>>,
      <<ModulesRow("5.15", <<"qtcharts", "qtwebengine">>)>>,
      <<ModulesRow("5.15", <<"qtwebengine", "qtcharts">>)>>,
      <<ModulesRow("5.15", <<"qtcharts">>)>>,
      <<ModulesRow("6.2", <<"qtcharts", "qtwebengine">>)>>,
      <<ModulesRow("5.15", <<"qtcharts", "qtwebengine">>),
        ModulesRow("6.2", <<"qtcharts", "qtwebengine">>)>> }

VersionsLists == { <<"5.15.2">>, <<"5.15.2", "6.2.0">> }

NewArchiveLists == { <<>>, <<"6.2.0">> }

CombosInputs ==
    [qt : QtLists, tools : ToolsLists, modules : ModulesLists,
     versions : VersionsLists, new_archive : NewArchiveLists]

(* The keys of actual_combos, in the order generate_combos puts them. *)
root_keys == <<"qt", "tools", "modules", "versions", "new_archive">>

(* line 264 and lines 308-309: new_archive is not compared. *)
compared_keys(keys) == SelectSeq(keys, LAMBDA k : k # "new_archive")

(* to_set: the strings of a list of str, str(a_dict) of a list of dicts;    *)
(* str() of a dict gives its items in insertion order.                      *)
to_set(a_list) == {a_list[i] : i \in 1..Len(a_list)}

(* report_difference, without what it prints: TRUE for a difference. *)
report_difference(superset, subset) == superset \ subset # {}

(* compare_modules_entry, without what it prints. *)
compare_modules_entry(actual_mod_item, expect_mod_item) ==
    to_set(actual_mod_item.modules) # to_set(expect_mod_item.modules)

(* zip(actual, expected): as many pairs as the shorter list has rows. *)
zip_len(actual_rows, expect_rows) ==
    IF Len(actual_rows) < Len(expect_rows) THEN Len(actual_rows) ELSE Len(expect_rows)

(* The comparison of one root key: lines 312-327.  The assert of line 316   *)
(* fails at the first pair of rows of different Qt versions.                *)
compare_key(actual_combos, expected_combos, root_key) ==
    IF root_key = "modules"
    THEN LET n == zip_len(actual_combos.modules, expected_combos.modules)
         IN  IF \E i \in 1..n : actual_combos.modules[i].qt_version
                                   # expected_combos.modules[i].qt_version
             THEN Raise("AssertionError", <<>>)
             ELSE Ok(\E i \in 1..n : compare_modules_entry(actual_combos.modules[i],
                                                            expected_combos.modules[i]))
    ELSE LET actual_set   == to_set(actual_combos[root_key])
             expected_set == to_set(expected_combos[root_key])
         IN  Ok(report_difference(expected_set, actual_set)
                   \/ report_difference(actual_set, expected_set))

(* compare_combos: lines 251-329 *)
compare_combos(actual_combos, expected_combos) ==
    LET keys == compared_keys(root_keys)
        cmp(i) == compare_key(actual_combos, expected_combos, keys[i])
    IN  IF \E i \in 1..Len(keys) : ~cmp(i).ok
        THEN cmp(CHOOSE i \in 1..Len(keys) : ~cmp(i).ok)
        ELSE Ok(\E i \in 1..Len(keys) : cmp(i).value)

CompareCombos ==
    /\ call = None
    /\ \E actual \in CombosInputs, expect \in CombosInputs :
          call' = [op |-> "compare_combos", actual |-> actual, expect |-> expect,
                   ret |-> compare_combos(actual, expect)]
    /\ UNCHANGED <<repoVars, urlVars, fetch>>

NextCi ==
    \/ IterArchiveIds
    \/ MergeRecords
    \/ CompareCombos

SpecCi == InitCi /\ [][NextCi]_vars

(***************************************************************************)
(* ci/generate_combinations.py: main, one step per call it makes.  The     *)
(* frame of the call is kept in "call"; steps is the list of the calls     *)
(* among write_combinations_json, commit_changes and open_pull_request     *)
(* that have completed, in the order they completed.                       *)
(***************************************************************************)
InitMain ==
    /\ Init
    /\ document = DocFixture

ModuleNames == <<"qtcharts", "qtwebengine">>

(* sorted(item["modules"]) *)
sorted_modules(modules) ==
    LET count(name) == Cardinality({i \in 1..Len(modules) : modules[i] = name})
        first == count(ModuleNames[1])
    IN  [i \in 1..Len(modules) |-> IF i <= first THEN ModuleNames[1] ELSE ModuleNames[2]]

(* alphabetize_modules: lines 332-334 *)
alphabetize_modules(combos) ==
    [combos EXCEPT !.modules =
        [i \in 1..Len(combos.modules) |->
            [combos.modules[i] EXCEPT !.modules = sorted_modules(@)]]]

(* The combinations of the file, and those generate_combos finds. *)
MainCombos ==
    [qt : {<<>>}, tools : {<<>>},
     modules : { <<>>,
                 <<ModulesRow("5.15", <<"qtwebengine", "qtcharts">>)>>,
                 <<ModulesRow("5.15", <<"qtcharts">>)>>,
                 <<ModulesRow("6.2", <<"qtcharts">>)>> },
     versions : VersionsLists, new_archive : NewArchiveLists]

(* What generate_combos does: it returns the combinations it fetched, with  *)
(* the new_archive it was given, or a fetch raises.                         *)
GenerateOutcomes(new_archive) ==
    {Ok([c EXCEPT !.new_archive = new_archive]) : c \in MainCombos}
       \cup {Raise("ArchiveConnectionError", <<>>), Raise("ArchiveDownloadError", <<>>)}

MainFrame(expect, is_make_pull_request) ==
    [op |-> "main", pc |-> "generate", expect |-> expect,
     is_make_pull_request |-> is_make_pull_request,
     actual |-> NoResult, diff |-> NoResult, steps |-> <<>>, logged |-> <<>>,
     ret |-> NoResult]

(* The exit of main by an exception: lines 448-450.  The two fetch errors   *)
(* are logged and give 1; every other exception leaves main uncaught.       *)
on_exception_returns_zero(fr, raised) ==
    [fr EXCEPT !.pc = "done", !.ret = Ok(0)]

on_exception(fr, raised) ==
    IF raised.exc \in {"ArchiveConnectionError", "ArchiveDownloadError"}
    THEN [fr EXCEPT !.pc = "done", !.logged = Append(@, raised.exc), !.ret = Ok(1)]
    ELSE [fr EXCEPT !.pc = "done", !.ret = raised]

(* Lines 438-447: what follows the comparison. *)
after_compare(fr, diff) ==
    IF ~diff THEN [fr EXCEPT !.pc = "done", !.diff = Ok(diff), !.ret = Ok(0)]
    ELSE IF fr.is_make_pull_request
         THEN [fr EXCEPT !.pc = "write", !.diff = Ok(diff)]
         ELSE [fr EXCEPT !.pc = "done", !.diff = Ok(diff), !.ret = Ok(1)]

(* Lines 443-446: the statement after each of the three calls. *)
main_after_skips_commit(step) ==
    IF step = "write" THEN "pr" ELSE IF step = "commit" THEN "pr" ELSE "done"

main_after(step) ==
    IF step = "write" THEN "commit" ELSE IF step = "commit" THEN "pr" ELSE "done"

step_completed(fr) ==
    LET then == main_after(fr.pc)
    IN  [fr EXCEPT !.pc = then, !.steps = Append(@, fr.pc),
                   !.ret = IF then = "done" THEN Ok(0) ELSE @]

(* Lines 432-433: the file is read and its modules are alphabetized. *)
MainEnter ==
    /\ call = None
    /\ \E expect \in MainCombos, is_make_pull_request \in BOOLEAN :
          call' = MainFrame(alphabetize_modules(expect), is_make_pull_request)
    /\ UNCHANGED <<repoVars, urlVars, fetch>>

(* Line 434 *)
MainGenerate ==
    /\ CallIs("main")
    /\ call.pc = "generate"
    /\ \E outcome \in GenerateOutcomes(call.expect.new_archive) :
          call' = IF outcome.ok
                  THEN [call EXCEPT !.pc = "compare", !.actual = outcome]
                  ELSE on_exception(call, outcome)
    /\ UNCHANGED <<repoVars, urlVars, fetch>>

(* Lines 436-447 *)
MainCompare ==
    /\ CallIs("main")
    /\ call.pc = "compare"
    /\ LET diff == compare_combos(call.actual.value, call.expect)
       IN  call' = IF diff.ok THEN after_compare(call, diff.value)
                   ELSE on_exception(call, diff)
    /\ UNCHANGED <<repoVars, urlVars, fetch>>

(* Line 444: write_combinations_json completes or raises (lines 337-343). *)
MainWrite ==
    /\ CallIs("main")
    /\ call.pc = "write"
    /\ \/ call' = step_completed(call)
       \/ call' = on_exception(call, Raise("RuntimeError", S("Failed to write file!")))
    /\ UNCHANGED <<repoVars, urlVars, fetch>>

(* Line 445: commit_changes completes, an assert fails or it raises (lines  *)
(* 363-382).                                                                *)
MainCommit ==
    /\ CallIs("main")
    /\ call.pc = "commit"
    /\ \/ call' = step_completed(call)
       \/ call' = on_exception(call, Raise("AssertionError", <<>>))
       \/ call' = on_exception(call, Raise("RuntimeError", S("Failed to commit changes!")))
    /\ UNCHANGED <<repoVars, urlVars, fetch>>

(* Line 446: open_pull_request completes or raises (lines 385-413). *)
MainOpenPullRequest ==
    /\ CallIs("main")
    /\ call.pc = "pr"
    /\ \/ call' = step_completed(call)
       \/ call' = on_exception(call, Raise("RuntimeError", S("Failed to create pull request!")))
    /\ UNCHANGED <<repoVars, urlVars, fetch>>

NextMain ==
    \/ MainEnter
    \/ MainGenerate
    \/ MainCompare
    \/ MainWrite
    \/ MainCommit
    \/ MainOpenPullRequest

SpecMain == InitMain /\ [][NextMain]_vars

ArchExtensions == {"x86_64", "x86", "armv7", "arm64_v8a"}

(* C22: iter_archive_ids never yields a qt6 id for winrt; with              *)
(* add_extensions every qt6/android selection it goes through is yielded    *)
(* with exactly the four architecture extensions and never with the empty   *)
(* one, wasm is yielded for qt5/desktop only and an architecture extension  *)
(* for qt6/android only; without add_extensions every id has the empty      *)
(* extension.                                                               *)
C22_OnlyValidIds ==
    CallIs("iter_archive_ids") =>
       LET ids  == call.ret
           Ids  == {ids[i] : i \in 1..Len(ids)}
           cats == {call.categories[i] : i \in 1..Len(call.categories)}
           targetsOf(h) == IF call.targets = None
                           THEN {TARGETS_FOR_HOST[h][i] : i \in 1..Len(TARGETS_FOR_HOST[h])}
                           ELSE {call.targets.v[i] : i \in 1..Len(call.targets.v)}
       IN  /\ \A id \in Ids : ~(id.category = "qt6" /\ id.target = "winrt")
           /\ call.add_extensions =>
                 /\ \A h \in call.hosts :
                       ("qt6" \in cats /\ "android" \in targetsOf(h)) =>
                          {id.extension : id \in {x \in Ids : /\ x.category = "qt6"
                                                              /\ x.host = h
                                                              /\ x.target = "android"}}
                             = {"x86_64", "x86", "armv7", "arm64_v8a"}
                 /\ \A id \in Ids :
                       (id.category = "qt6" /\ id.target = "android") => id.extension # ""
           /\ \A id \in Ids :
                 /\ id.extension = "wasm" => (id.category = "qt5" /\ id.target = "desktop")
                 /\ id.extension \in ArchExtensions =>
                       (id.category = "qt6" /\ id.target = "android")
           /\ ~call.add_extensions => \A id \in Ids : id.extension = ""

C22_Witness ==
    /\ CallIs("iter_archive_ids")
    /\ call.add_extensions
    /\ call.targets = None
    /\ call.categories = CATEGORIES
    /\ call.hosts = {"linux", "mac", "windows"}
    /\ \E i \in 1..Len(call.ret) : call.ret[i] = ArchiveId("qt6", "windows", "android", "armv7")
    /\ \E i \in 1..Len(call.ret) : call.ret[i] = ArchiveId("qt5", "mac", "desktop", "wasm")
    /\ \E i \in 1..Len(call.ret) : call.ret[i] = ArchiveId("qt5", "windows", "winrt", "")

(* (os_name, target, arch) of a before that of b. *)
TripleLess(a, b) ==
    \/ StrRank(a.os_name) < StrRank(b.os_name)
    \/ a.os_name = b.os_name /\ StrRank(a.target) < StrRank(b.target)
    \/ a.os_name = b.os_name /\ a.target = b.target /\ StrRank(a.arch) < StrRank(b.arch)

(* The orders in which the elements of a sequence of length n can be given. *)
Permutations_(n) == {f \in [1..n -> 1..n] : \A i, j \in 1..n : i # j => f[i] # f[j]}

(* C23: the output of merge_records holds every (os_name, target, arch) of  *)
(* the input once, ascending by os_name, then target, then arch; it is the  *)
(* same for every order of the input, and merge_records leaves its own      *)
(* output as it is.                                                         *)
C23_MergeRecords ==
    CallIs("merge_records") =>
       LET in  == call.arch_records
           out == call.ret
       IN  /\ {out[i] : i \in 1..Len(out)} = {in[i] : i \in 1..Len(in)}
           /\ \A i, j \in 1..Len(out) : i < j => TripleLess(out[i], out[j])
           /\ \A f \in Permutations_(Len(in)) :
                 merge_records([i \in 1..Len(in) |-> in[f[i]]]) = out
           /\ merge_records(out) = out

C23_Witness ==
    /\ CallIs("merge_records")
    /\ call.arch_records =
          << [os_name |-> "windows", target |-> "android", arch |-> "clang_64"],
             [os_name |-> "linux", target |-> "desktop", arch |-> "gcc_64"],
             [os_name |-> "windows", target |-> "android", arch |-> "clang_64"] >>
    /\ call.ret =
          << [os_name |-> "linux", target |-> "desktop", arch |-> "gcc_64"],
             [os_name |-> "windows", target |-> "android", arch |-> "clang_64"] >>

(* An entry dict as the mapping it is, whatever the order of its keys. *)
EntryMap(entry) ==
    [k \in {entry[i][1] : i \in 1..Len(entry)} |->
        entry[CHOOSE i \in 1..Len(entry) : entry[i][1] = k][2]]

EntrySet(list) == {EntryMap(list[i]) : i \in 1..Len(list)}

(* The module names of each Qt version of a modules list. *)
ModulesByVersion(rows) ==
    {<<rows[i].qt_version, {rows[i].modules[j] : j \in 1..Len(rows[i].modules)}>> :
        i \in 1..Len(rows)}

(* A difference between the actual and the expected combinations in a       *)
(* compared root key.                                                       *)
CombosDiffer(actual, expect) ==
    \/ EntrySet(actual.qt) # EntrySet(expect.qt)
    \/ EntrySet(actual.tools) # EntrySet(expect.tools)
    \/ {actual.versions[i] : i \in 1..Len(actual.versions)}
          # {expect.versions[i] : i \in 1..Len(expect.versions)}
    \/ Len(actual.modules) # Len(expect.modules)
    \/ ModulesByVersion(actual.modules) # ModulesByVersion(expect.modules)

(* C24: compare_combos returns True exactly when the actual and the         *)
(* expected combinations differ in a compared root key (qt, tools and       *)
(* versions as sets of entries, modules as the module names of each Qt      *)
(* version), so also when the two modules lists differ in length or in the  *)
(* Qt versions they cover, and it returns False only when they do not       *)
(* differ.                                                                  *)
C24_DifferenceDetected ==
    CallIs("compare_combos") =>
       /\ call.ret.ok
       /\ call.ret.value <=> CombosDiffer(call.actual, call.expect)

MainSteps == <<"write", "commit", "pr">>

(* C25: in main the three steps complete only in the order write, commit,   *)
(* open pull request, and only after a difference was detected with a pull  *)
(* request asked for: the pull request is reached or opened only when the   *)
(* write and the commit completed before it, and without a difference no    *)
(* step happens.                                                            *)
C25_WriteCommitPullRequest ==
    CallIs("main") =>
       /\ \E n \in 0..3 : call.steps = SubSeq(MainSteps, 1, n)
       /\ (call.pc \in {"write", "commit", "pr"} \/ call.steps # <<>>) =>
             call.diff = Ok(TRUE) /\ call.is_make_pull_request
       /\ call.pc = "commit" => call.steps = <<"write">>
       /\ call.pc = "pr" => call.steps = <<"write", "commit">>
       /\ call.diff = Ok(FALSE) => call.steps = <<>> /\ call.pc = "done"

C25_Witness ==
    /\ CallIs("main")
    /\ call.steps = MainSteps
    /\ call.ret = Ok(0)

(* C26: main returns 0 exactly when no difference was detected or when a    *)
(* difference was detected, a pull request was asked for and the write, the *)
(* commit and the pull request all completed; it returns 1 when a           *)
(* difference was detected and no pull request was asked for, and it        *)
(* returns 1 with the file not written when the fetch raised                *)
(* ArchiveConnectionError or ArchiveDownloadError.                          *)
C26_ReturnCodes ==
    (CallIs("main") /\ call.pc = "done") =>
       /\ call.ret = Ok(0) <=>
             \/ call.diff = Ok(FALSE)
             \/ /\ call.diff = Ok(TRUE)
                /\ call.is_make_pull_request
                /\ call.steps = MainSteps
       /\ (call.diff = Ok(TRUE) /\ ~call.is_make_pull_request) => call.ret = Ok(1)
       /\ call.logged # <<>> =>
             call.ret = Ok(1) /\ call.steps = <<>> /\ call.actual = NoResult

C26_Witness ==
    /\ CallIs("main")
    /\ call.pc = "done"
    /\ call.logged = <<"ArchiveDownloadError">>
    /\ call.ret = Ok(1)

(* The declared argument names are distinct, and fill_template succeeds for *)
(* every combination of the values.                                         *)
GenEnumerable ==
    /\ GenWellFormed
    /\ \A i, j \in 1..Len(schema.args.v) : ArgName(i) = ArgName(j) => i = j
    /\ LET combos == Product(GenLists)
       IN  \A k \in 1..Len(combos) : GenFill(combos[k]).ok

(* helper is about to yield: line 84 holds. *)
GenAtYield ==
    /\ gen.status = "running"
    /\ GenTop.kind = "call"
    /\ GenTop.index = Len(gen.values)

(* C27: for a schema with distinct argument names and any lists of allowed  *)
(* values, an empty one included, the enumeration of yield_urls ends        *)
(* without a failure, the accumulator binds exactly the declared argument   *)
(* names at each yield and is empty at the end, and an empty list at an     *)
(* "all" position gives no URL.                                             *)
C27_AccumulatorRestored ==
    GenEnumerable =>
       /\ gen.status # "raised"
       /\ GenAtYield => DOMAIN gen.args_dict = {ArgName(i) : i \in 1..Len(schema.args.v)}
       /\ gen.status = "done" =>
             /\ gen.args_dict = EmptyVars
             /\ (\E i \in 1..Len(gen.values) : GenLists[i] = <<>>) => gen.yielded = <<>>

(* A fill_template call on the schema has ended. *)
FillTemplateEnded == pc = "idle" /\ schema # NoSchema /\ result # NoResult

(* The call ended in the evaluation of a rule, at the root or nested, whose *)
(* source is semver and whose table is a mapping.                           *)
EndedAtSemverRule ==
    /\ FillTemplateEnded
    /\ frame # None
    /\ HasSeparator(frame.key)
    /\ SourceOf(frame.key) = S("semver")
    /\ frame.conv.t = "dict"

(* C28: when fill_template evaluates a conversion rule whose source is      *)
(* semver, at the root or nested, and the input variables do not hold       *)
(* semver, the call fails with a SchemaError and returns no URL.            *)
C28_MissingSemverIsSchemaError ==
    (EndedAtSemverRule /\ S("semver") \notin DOMAIN args0)
       => (~result.ok /\ result.exc = "SchemaError")

(* The conversion rules of the loaded variant, in the order the catalog     *)
(* stores them.                                                             *)
StoredRules == SelectSeq(LoadedVariant, LAMBDA item : item[1] \notin ReservedKeys)

(* The input variables hold the host and no version. *)
HostIs(host) ==
    /\ S("host") \in DOMAIN args0
    /\ args0[S("host")] = S(host)
    /\ S("semver") \notin DOMAIN args0

C29_State ==
    /\ pc = "translate" =>
          /\ idx \in 1..Len(StoredRules)
          /\ IF path = <<>>
             THEN frame = [key |-> StoredRules[idx][1], conv |-> StoredRules[idx][2]]
             ELSE path[1].key = StoredRules[idx][1]
    /\ (FillTemplateEnded /\ schema.schema_name = "chain" /\ HostIs("linux")) =>
          result = Ok(<<"linux", "/", "x64", ".", "run">>)
    /\ (FillTemplateEnded /\ schema.schema_name = "late" /\ HostIs("linux")) =>
          (~result.ok /\ idx = 1 /\ S("arch") \notin DOMAIN Variables)
    /\ (FillTemplateEnded /\ schema.schema_name = "shadow" /\ HostIs("linux")) =>
          (result = Ok(S("Linux")) /\ heap.a = args0)

C29_Step ==
    /\ (pc = "loop" /\ pc' = "translate") =>
          frame' = [key |-> StoredRules[idx][1], conv |-> StoredRules[idx][2]]
    /\ (pc = "translate" /\ pc' = "loop") =>
          /\ idx' = idx + 1
          /\ TargetOf(frame.key) \in DOMAIN Variables'
          /\ Variables'[TargetOf(frame.key)] = translation'.v
    /\ ( /\ pc = "translate"
         /\ HasSeparator(frame.key)
         /\ Len(Split(frame.key, "-to-")) = 2
         /\ SourceOf(frame.key) # S("semver") ) =>
          IF /\ SourceOf(frame.key) \in DOMAIN Variables
             /\ frame.conv.t = "dict"
             /\ DictHas(frame.conv.v, Variables[SourceOf(frame.key)])
          THEN translation' = DictGet(frame.conv.v, Variables[SourceOf(frame.key)])
          ELSE pc' = "idle" /\ ~result'.ok

(* C29: the conversion rules are evaluated one after another in the order   *)
(* the catalog stores them, and the target of a rule is bound before the    *)
(* next rule is evaluated: a rule whose source is the target of an earlier  *)
(* rule resolves against the value that rule bound, a rule whose source is  *)
(* bound only by a later rule fails, and a rule whose target is the name of *)
(* an input variable replaces its value in the template substitution.       *)
C29_StoredOrder == [](C29_State) /\ [][C29_Step]_vars

C29_Witness ==
    /\ FillTemplateEnded
    /\ schema.schema_name = "chain"
    /\ args0 = MapOf(<< <<S("host"), S("linux")>> >>)
    /\ result = Ok(<<"linux", "/", "x64", ".", "run">>)

(* The key followed at level n of the chain: the root rule's key, then the  *)
(* single key of the node chosen at the level above.                        *)
ChainKey(levels, n) ==
    IF n = 1 THEN StoredRules[idx][1] ELSE levels[n - 1].chosen.v[1][1]

C30_Step ==
    /\ (pc = "translate" /\ pc' = "loop") =>
          LET n     == Len(path')
              inner == TargetOf(ChainKey(path', n))
              root  == TargetOf(ChainKey(path', 1))
          IN  /\ path'[n].chosen.t = "str"
              /\ Variables' = SetVar(Variables, inner, path'[n].chosen.v)
              /\ root # inner =>
                    /\ root \in DOMAIN Variables' <=> root \in DOMAIN Variables
                    /\ root \in DOMAIN Variables => Variables'[root] = Variables[root]
    /\ (pc = "translate" /\ pc' # "loop") => Variables' = Variables

(* C30: for a rule that resolves through nested nodes the variable that     *)
(* receives the leaf string is the target of the innermost key of the chain *)
(* followed, one variable is bound per root rule, and the target of the     *)
(* root key is bound only when the innermost key names the same target.     *)
C30_InnermostTarget == [][C30_Step]_vars

C30_Witness ==
    /\ pc = "loop"
    /\ schema # NoSchema
    /\ schema.schema_name = "inner"
    /\ Len(path) = 2
    /\ S("file_ext") \in DOMAIN Variables
    /\ Variables[S("file_ext")] = S("run64")
    /\ S("arch") \notin DOMAIN Variables

====
